---- MODULE Spec2Model ----
(***************************************************************************)
(* Model of the Lead-contact-trigger worker.                               *)
(*                                                                         *)
(*  - the campaign runner, sendEmailCampaign (src/src/utils/tokenRefresh.ts*)
(*    lines 143-344), with the backend, the OAuth endpoint and Gmail as    *)
(*    its environment;                                                     *)
(*  - the reply poller, scheduledReplyChecker and checkCampaignReplies     *)
(*    (src/src/trigger/replyChecker.ts), with the backend's conversation   *)
(*    store, the Gmail threads and the reply agent as its environment.     *)
(*                                                                         *)
(* Every task instance is one sequential thread of control; pc / ppc hold  *)
(* the position of that thread between two awaited calls.                  *)
(***************************************************************************)
EXTENDS Integers, Sequences, FiniteSets, TLC

\* ------------------------------------------------------------------ bounds
\* Pages the backend serves before it must return a short page.
MaxPages == 2
\* Longest short (non-full) page the backend returns.
MaxShort == 1
\* Largest value of the "total" field the backend reports with a page.
MaxTotal == 1
\* Distinct access tokens the OAuth endpoint hands out beyond the payload's.
MaxTok == 1

\* Users the backend lists for the reply poller.
NumUsers == 2
\* Inbound messages the contacts send in one behaviour.
MaxMsgs == 2
\* Largest max_replies_per_thread of a campaign.
MaxCap == 1

\* Longest list of MIME parts of a message payload.
MaxParts == 2
\* Longest list of headers of a message payload.
MaxHeaders == 2

\* Farthest the clock is taken from an expiry boundary, in milliseconds.
MaxSkew == 2

\* Most words of the vocabulary an inbound message body is made of.
MaxWords == 2
\* Most steps (model turns, each with its tool results) of one generation.
MaxSteps == 2

\* Longest template text, in tokens (literal chunks and placeholders).
MaxTemplate == 2

\* Inbound messages of the conversation two reply checks run over at once.
MaxInbound == 1

\* ------------------------------------------------------- program constants
\* const pageSize = 50;
pageSize == 50
\* (totalSent + totalFailed) % 20 === 0
refreshEvery == 20
\* isTokenExpired(tokenExpiry?: string, bufferMinutes: number = 5)
defaultBufferMinutes == 5
\* (data.expires_in || 3600) * 1000
defaultExpiresIn == 3600
\* new Date(Date.now() + 3600000)
defaultLifetimeMs == 3600000

\* ------------------------------------------------------- campaign runner
VARIABLES
    pc,             \* position of the sendEmailCampaign run
    payloadValid,   \* payload && payload.campaignId
    hasRefresh,     \* payload.refreshToken is present
    totalSent,      \* let totalSent
    totalFailed,    \* let totalFailed
    totalContacts,  \* let totalContacts
    page,           \* let page
    hasMore,        \* let hasMore
    pageLen,        \* contacts.length of the page being processed
    idx,            \* index (1-based) of the contact being processed
    token,          \* tokenInfo.token
    issued,         \* access tokens the OAuth endpoint has issued so far
    statuses,       \* campaign-status webhook posts issued, in order
    progress,       \* the campaign-progress post just issued, NoProgress otherwise
    progressPosts,  \* history: number of campaign-progress posts issued
    error,          \* the error caught by the outer catch, "none" before
    thrown,         \* the error that left the task, "none" if none
    result,         \* the returned summary, or NoResult
    firstTotal,     \* history: total reported with page 1, -1 before
    shortSeen,      \* history: a page shorter than pageSize was fetched
    refreshFailed,  \* history: a token refresh failed in this run
    fetches,        \* history: number of contact pages fetched
    delivered,      \* history: number of contacts the fetched pages held
    sendResult,     \* outcome of the current contact: "none", "sent", "failed", "error"
    postLost,       \* the webhook or email-log post of the last step failed
    totalsDiffer       \* history: a later page reported another total than page 1

cvars == <<pc, payloadValid, hasRefresh, totalSent, totalFailed, totalContacts,
           page, hasMore, pageLen, idx, token, issued, statuses, progress,
           progressPosts, error, thrown, result, firstTotal, shortSeen, refreshFailed, fetches,
           delivered, sendResult, postLost, totalsDiffer>>

\* ------------------------------------------------------- reply poller
VARIABLES
    ppc,              \* position of the reply-check pass
    usersLeft,        \* for (const userData of usersWithCampaigns): not yet done
    campsLeft,        \* for (const campaign of campaigns): not yet done
    convsLeft,        \* for (const conversation of conversations): not yet done
    msgsLeft,         \* for (const message of messages): not yet done
    snap,             \* conversation.auto_replies_sent as fetched for this campaign
    autoReplies,      \* let autoReplies (checkCampaignReplies)
    totalAutoReplies, \* let totalAutoReplies
    sentInPass,       \* history: auto-reply sends that succeeded in this pass
    passResult,       \* what the last finished pass returned, NoPass while one runs
    enabled,          \* campaign.auto_reply_enabled (the campaigns share one setting)
    maxReplies,       \* campaign.max_replies_per_thread (likewise)
    mail,             \* Gmail: number of messages of the contact in each thread
    known,            \* backend: message ids message-exists answers true for
    autoCount,        \* backend: conversation.auto_replies_sent
    sentAuto,         \* history: auto-replies the poller sent, per conversation
    recordPosts,      \* history: record-reply posts, per message id (2 = two or more)
    reRecorded,       \* history: record-reply was posted for an id the backend knew
    curPosted,        \* history: record-reply was posted for the current message
    shouldReply,      \* aiResponse.shouldReply of the current message, FALSE before
    userFailed,       \* history: the per-user catch was entered in this pass
    listOk,           \* history: the current user's campaign list was fetched
    entered,          \* history: the current user's campaigns checked so far
    campThrew         \* history: a campaign check ended in its catch in this pass

pvars == <<ppc, usersLeft, campsLeft, convsLeft, msgsLeft, snap, autoReplies,
           totalAutoReplies, sentInPass, passResult, enabled, maxReplies, mail,
           known, autoCount, sentAuto, recordPosts, reRecorded, curPosted, shouldReply,
           userFailed, listOk, entered, campThrew>>

\* ------------------------------------------------------- library functions
\* The exported helpers (Gmail transport, token refresher, reply agent,
\* template rendering) are functions of their arguments and of what the
\* services they call answer; one call is modelled at a time.
VARIABLES
    call,           \* the call being made: function name, arguments, service answers
    ret,            \* what the call returned or threw, NoRet before it ends
    posted,         \* the send request the call posted to Gmail, NoRequest if none
    processEnv      \* process.env: the provider key names, "" when unset

lvars == <<call, ret, posted, processEnv>>

\* ------------------------------------------------------- concurrent reply checks
\* Two task instances that run checkCampaignReplies over the same
\* conversation at the same time; the backend and Gmail are shared.
VARIABLES
    rpc,            \* position of each instance
    rleft,          \* for (const message of messages): not yet done, per instance
    rsnap,          \* conversation.auto_replies_sent as each instance fetched it
    rmail,          \* Gmail: number of messages of the contact in the thread
    rknown,         \* backend: message ids message-exists answers true for
    rcount,         \* backend: conversation.auto_replies_sent
    rrecords,       \* history: record-reply posts, per message id (2 = two or more)
    ranswers,       \* history: auto-replies sent, per message id (2 = two or more)
    rfaulty         \* history: a message-exists lookup or a record-reply post failed

rvars == <<rpc, rleft, rsnap, rmail, rknown, rcount, rrecords, ranswers, rfaulty>>

vars == <<cvars, pvars, lvars, rvars>>

NoCall == [fn |-> "none"]
NoRet == [pending |-> TRUE, threw |-> FALSE, value |-> "none"]

\* A call that ended: it returned v, or an exception left it (v describes it).
Ended(v) == [pending |-> FALSE, threw |-> v.threw, value |-> v]

NoProgress == [processed |-> -1, sent |-> -1, failed |-> -1]

NoResult == [success |-> FALSE, sent |-> -1, failed |-> -1, total |-> -1]

\* Page lengths the backend may return: a short page or a full one.
PageLens == (0..MaxShort) \cup {pageSize}

\* Outcomes of getValidAccessToken(tokenInfo): the token it returns, or "fail".
\* isTokenExpired(expiry) depends on the clock and is an input here.
FreshTokens(n) == IF n < MaxTok THEN {n + 1} ELSE {}

\* refreshGoogleToken: the exchange returns an access token (a new string, or the
\* string it returned before), or throws "Token refresh failed: ...".
RefreshOutcomes(cur, n) ==
    {[ok |-> TRUE, token |-> t] : t \in {cur} \cup FreshTokens(n)}
      \cup {[ok |-> FALSE, token |-> cur]}

ValidAccessToken(cur, n, expiring, refreshPresent) ==
    IF expiring /\ refreshPresent
    THEN RefreshOutcomes(cur, n)
    ELSE {[ok |-> TRUE, token |-> cur]}

\* Mutant: the test without its first conjunct, which re-validates at contact 1.
NeedsRevalidationFromZero(sent, failed) == (sent + failed) % refreshEvery = 0

\* if ((totalSent + totalFailed) > 0 && (totalSent + totalFailed) % 20 === 0)
NeedsRevalidation(sent, failed) ==
    (sent + failed) > 0 /\ (sent + failed) % refreshEvery = 0

\* Mutant: paginate until an empty page comes back.
HasMoreWhileNonEmpty(n) == n > 0

\* hasMore = contacts.length === pageSize
HasMoreAfter(n) == n = pageSize

\* Mutant: the total is taken from every page, not only from page 1.
TotalEveryPage(p, old, reported) == reported

\* if (page === 1) totalContacts = total
TotalAfterPage(p, old, reported) == IF p = 1 THEN reported ELSE old

PostStatus(s, msg) == statuses' = Append(statuses, [status |-> s, msg |-> msg])

\* State of a campaign run when the task is entered with the given payload.
CampaignStart(valid, refreshPresent) ==
    /\ pc = "start"
    /\ payloadValid = valid
    /\ hasRefresh = refreshPresent
    /\ totalSent = 0
    /\ totalFailed = 0
    /\ totalContacts = 0
    /\ page = 1
    /\ hasMore = TRUE
    /\ pageLen = 0
    /\ idx = 0
    /\ token = 0
    /\ issued = 0
    /\ statuses = <<>>
    /\ progress = NoProgress
    /\ progressPosts = 0
    /\ error = "none"
    /\ thrown = "none"
    /\ result = NoResult
    /\ firstTotal = -1
    /\ shortSeen = FALSE
    /\ refreshFailed = FALSE
    /\ fetches = 0
    /\ delivered = 0
    /\ sendResult = "none"
    /\ postLost = FALSE
    /\ totalsDiffer = FALSE

\* if (!payload || !payload.campaignId) throw new Error(...)   (outside the try)
RejectPayload ==
    /\ pc = "start"
    /\ postLost' = FALSE
    /\ ~payloadValid
    /\ pc' = "thrown"
    /\ thrown' = "InvalidPayload"
    /\ UNCHANGED <<payloadValid, hasRefresh, totalSent, totalFailed, totalContacts,
                   page, hasMore, pageLen, idx, token, issued, statuses, progress, progressPosts,
                   error, result, firstTotal, shortSeen, refreshFailed, fetches,
                   delivered, sendResult, totalsDiffer>>

\* Outcomes of a webhook or email-log post: delivered, or lost (fetch rejected
\* or the backend answered with an error status).
PostOutcomes == BOOLEAN

\* Mutant: a lost 'running' post ends the run in the outer catch.
AfterRunningPostAborts(lost) == IF lost THEN "fatal" ELSE "token"

\* updateCampaignStatus: try { await fetch(...) } catch (err) { logger.error(...) }
\* The response is not inspected and nothing is rethrown: the run goes on.
AfterRunningPost(lost) == "token"

\* await updateCampaignStatus(backendUrl, campaignId, 'running')
MarkRunning ==
    /\ pc = "start"
    /\ payloadValid
    /\ PostStatus("running", "none")
    /\ \E lost \in PostOutcomes :
          postLost' = lost /\ pc' = AfterRunningPost(lost)
    /\ UNCHANGED <<payloadValid, hasRefresh, totalSent, totalFailed, totalContacts,
                   page, hasMore, pageLen, idx, token, issued, progress, progressPosts,
                   error, thrown, result, firstTotal, shortSeen, refreshFailed, fetches,
                   delivered, sendResult, totalsDiffer>>

\* let tokenInfo = await getValidAccessToken(...)   (inside the outer try only)
InitialToken ==
    /\ pc = "token"
    /\ postLost' = FALSE
    /\ \E expiring \in BOOLEAN :
       \E r \in ValidAccessToken(token, issued, expiring, hasRefresh) :
          IF r.ok
          THEN /\ token' = r.token
               /\ issued' = IF r.token > issued THEN r.token ELSE issued
               /\ pc' = "template"
               /\ UNCHANGED <<error, refreshFailed>>
          ELSE /\ error' = "TokenRefreshFailed"
               /\ refreshFailed' = TRUE
               /\ pc' = "fatal"
               /\ UNCHANGED <<token, issued>>
    /\ UNCHANGED <<payloadValid, hasRefresh, totalSent, totalFailed, totalContacts,
                   page, hasMore, pageLen, idx, statuses, progress, progressPosts,
                   thrown, result, firstTotal, shortSeen, fetches,
                   delivered, sendResult, totalsDiffer>>

\* const template = await fetchTemplate(...)
FetchTemplate ==
    /\ pc = "template"
    /\ postLost' = FALSE
    /\ \E ok \in BOOLEAN :
          IF ok
          THEN pc' = "page" /\ UNCHANGED error
          ELSE pc' = "fatal" /\ error' = "TemplateFetchFailed"
    /\ UNCHANGED <<payloadValid, hasRefresh, totalSent, totalFailed, totalContacts,
                   page, hasMore, pageLen, idx, token, issued, statuses, progress, progressPosts,
                   thrown, result, firstTotal, shortSeen, refreshFailed, fetches,
                   delivered, sendResult, totalsDiffer>>

\* Lengths the backend returns for page p: the last page it serves is short.
LensOfPage(p) == IF p >= MaxPages THEN 0..MaxShort ELSE PageLens

\* Mutant: a page without contacts is an error of the run.
EmptyPageFails == "fatal"

\* if (contacts.length === 0) { hasMore = false; break; }   leaves the while
EmptyPagePc == "complete"

\* while (hasMore) { const { contacts, total } = await fetchContactsPage(...)
\*   if (page === 1) totalContacts = total;
\*   if (contacts.length === 0) { hasMore = false; break; }
FetchPage ==
    /\ pc = "page"
    /\ postLost' = FALSE
    /\ progress' = NoProgress
    /\ fetches' = fetches + 1
    /\ \/ /\ pc' = "fatal"
          /\ error' = "ContactsFetchFailed"
          /\ UNCHANGED <<totalContacts, hasMore, pageLen, idx, firstTotal,
                         shortSeen, delivered, totalsDiffer>>
       \/ \E n \in LensOfPage(page), total \in 0..MaxTotal :
          /\ totalContacts' = TotalAfterPage(page, totalContacts, total)
          /\ firstTotal' = IF fetches = 0 THEN total ELSE firstTotal
          /\ totalsDiffer' = (totalsDiffer \/ (fetches > 0 /\ total # firstTotal))
          /\ shortSeen' = (shortSeen \/ n < pageSize)
          /\ pageLen' = n
          /\ delivered' = delivered + n
          /\ IF n = 0
             THEN hasMore' = FALSE /\ idx' = 0 /\ pc' = EmptyPagePc
             ELSE hasMore' = hasMore /\ idx' = 1 /\ pc' = "contact"
          /\ UNCHANGED error
    /\ UNCHANGED <<payloadValid, hasRefresh, totalSent, totalFailed,
                   page, token, issued, statuses, progressPosts,
                   thrown, result, refreshFailed, sendResult>>

\* Where a failed re-validation inside the per-contact try lands: the catch of
\* that try (lines 279-294), which counts the contact as failed and logs it.
RevalidationFailurePc == "log"

\* Mutant: the re-validated token is dropped and the run keeps its old one.
TokenKept(cur, new) == cur

\* if (newTokenInfo.token !== tokenInfo.token) { clearGmailCache(); tokenInfo = newTokenInfo; }
TokenAfterRevalidation(cur, new) == IF new # cur THEN new ELSE cur

\* if ((totalSent + totalFailed) > 0 && (totalSent + totalFailed) % 20 === 0) {
\*     const newTokenInfo = await getValidAccessToken(...)
\*     if (newTokenInfo.token !== tokenInfo.token) { tokenInfo = newTokenInfo }
Revalidate ==
    /\ pc = "contact"
    /\ postLost' = FALSE
    /\ NeedsRevalidation(totalSent, totalFailed)
    /\ \E expiring \in BOOLEAN :
       \E r \in ValidAccessToken(token, issued, expiring, hasRefresh) :
          IF r.ok
          THEN /\ token' = TokenAfterRevalidation(token, r.token)
               /\ issued' = IF r.token > issued THEN r.token ELSE issued
               /\ pc' = "send"
               /\ UNCHANGED <<totalFailed, refreshFailed, sendResult, error>>
          ELSE /\ refreshFailed' = TRUE
               /\ IF RevalidationFailurePc = "log"
                  THEN /\ totalFailed' = totalFailed + 1
                       /\ sendResult' = "error"
                       /\ UNCHANGED error
                  ELSE /\ error' = "TokenRefreshFailed"
                       /\ UNCHANGED <<totalFailed, sendResult>>
               /\ pc' = RevalidationFailurePc
               /\ UNCHANGED <<token, issued>>
    /\ UNCHANGED <<payloadValid, hasRefresh, totalSent, totalContacts,
                   page, hasMore, pageLen, idx, statuses, progress, progressPosts,
                   thrown, result, firstTotal, shortSeen, fetches, delivered,
                   totalsDiffer>>

\* Mutant: a failed send is logged but not counted.
FailedAfterUncounted(ok, failed) == failed

\* if (result.success) totalSent++ else totalFailed++
SentAfter(ok, sent) == IF ok THEN sent + 1 ELSE sent
FailedAfter(ok, failed) == IF ok THEN failed ELSE failed + 1

\* const result = await sendEmail(tokenInfo.token, {...})
SendResult(ok) ==
    /\ \/ pc = "send"
       \/ pc = "contact" /\ ~NeedsRevalidation(totalSent, totalFailed)
    /\ totalSent' = SentAfter(ok, totalSent)
    /\ totalFailed' = FailedAfter(ok, totalFailed)
    /\ sendResult' = IF ok THEN "sent" ELSE "failed"
    /\ postLost' = FALSE
    /\ pc' = "log"
    /\ UNCHANGED <<payloadValid, hasRefresh, totalContacts,
                   page, hasMore, pageLen, idx, token, issued, statuses, progress, progressPosts,
                   error, thrown, result, firstTotal, shortSeen, refreshFailed,
                   fetches, delivered, totalsDiffer>>

Send == \E ok \in BOOLEAN : SendResult(ok)

\* Mutant: a lost email-logs post counts the contact as failed.
FailedAfterLogCounted(lost, failed) == IF lost THEN failed + 1 ELSE failed

\* logEmail: try { await fetch(...) } catch (err) { logger.error(...) }
\* It never throws, so the catch of the per-contact try is not entered.
FailedAfterLog(lost, failed) == failed

\* await logEmail(...); await delay(300); next contact
LogEmail ==
    /\ pc = "log"
    /\ sendResult' = "none"
    /\ \E lost \in PostOutcomes :
          postLost' = lost /\ totalFailed' = FailedAfterLog(lost, totalFailed)
    /\ IF idx < pageLen
       THEN idx' = idx + 1 /\ pc' = "contact"
       ELSE idx' = idx /\ pc' = "progress"
    /\ UNCHANGED <<payloadValid, hasRefresh, totalSent, totalContacts,
                   page, hasMore, pageLen, token, issued, statuses, progress, progressPosts,
                   error, thrown, result, firstTotal, shortSeen, refreshFailed,
                   fetches, delivered, totalsDiffer>>

\* Mutant: the update reports the emails sent as the contacts processed.
ProgressOfSentOnly(sent, failed) == [processed |-> sent, sent |-> sent, failed |-> failed]

\* { processed: totalSent + totalFailed, sent: totalSent, failed: totalFailed }
ProgressOf(sent, failed) == [processed |-> sent + failed, sent |-> sent, failed |-> failed]

\* await updateCampaignProgress(...); hasMore = contacts.length === pageSize; page++
UpdateProgress ==
    /\ pc = "progress"
    /\ postLost' \in PostOutcomes
    /\ progress' = ProgressOf(totalSent, totalFailed)
    /\ progressPosts' = progressPosts + 1
    /\ hasMore' = HasMoreAfter(pageLen)
    /\ page' = page + 1
    /\ pc' = IF HasMoreAfter(pageLen) THEN "page" ELSE "complete"
    /\ UNCHANGED <<payloadValid, hasRefresh, totalSent, totalFailed, totalContacts,
                   pageLen, idx, token, issued, statuses,
                   error, thrown, result, firstTotal, shortSeen, refreshFailed,
                   fetches, delivered, sendResult, totalsDiffer>>

\* Mutant: the run returns its summary without posting 'completed'.
CompleteUnposted ==
    /\ pc = "complete"
    /\ postLost' = FALSE
    /\ result' = [success |-> TRUE, sent |-> totalSent, failed |-> totalFailed,
                  total |-> totalContacts]
    /\ pc' = "done"
    /\ UNCHANGED <<payloadValid, hasRefresh, totalSent, totalFailed, totalContacts,
                   page, hasMore, pageLen, idx, token, issued, progress, progressPosts, statuses,
                   error, thrown, firstTotal, shortSeen, refreshFailed,
                   fetches, delivered, sendResult, totalsDiffer>>

\* await updateCampaignStatus(..., 'completed'); return {success: true, ...}
Complete ==
    /\ pc = "complete"
    /\ postLost' \in PostOutcomes
    /\ progress' = NoProgress
    /\ PostStatus("completed", "none")
    /\ result' = [success |-> TRUE, sent |-> totalSent, failed |-> totalFailed,
                  total |-> totalContacts]
    /\ pc' = "done"
    /\ UNCHANGED <<payloadValid, hasRefresh, totalSent, totalFailed, totalContacts,
                   page, hasMore, pageLen, idx, token, issued, progressPosts,
                   error, thrown, firstTotal, shortSeen, refreshFailed,
                   fetches, delivered, sendResult, totalsDiffer>>

\* Mutant: the outer catch posts 'failed' and swallows the error.
FailCampaignSwallowed ==
    /\ pc = "fatal"
    /\ postLost' \in PostOutcomes
    /\ PostStatus("failed", error)
    /\ pc' = "done"
    /\ UNCHANGED <<payloadValid, hasRefresh, totalSent, totalFailed, totalContacts,
                   page, hasMore, pageLen, idx, token, issued, progress, progressPosts,
                   error, thrown, result, firstTotal, shortSeen, refreshFailed,
                   fetches, delivered, sendResult, totalsDiffer>>

\* catch (error) { await updateCampaignStatus(..., 'failed', error.message); throw error }
FailCampaign ==
    /\ pc = "fatal"
    /\ postLost' \in PostOutcomes
    /\ PostStatus("failed", error)
    /\ thrown' = error
    /\ pc' = "thrown"
    /\ UNCHANGED <<payloadValid, hasRefresh, totalSent, totalFailed, totalContacts,
                   page, hasMore, pageLen, idx, token, issued, progress, progressPosts,
                   error, result, firstTotal, shortSeen, refreshFailed,
                   fetches, delivered, sendResult, totalsDiffer>>

\* ------------------------------------------------------- reply poller

\* The backend's users, their auto-reply campaigns and those campaigns' open
\* conversations (users-with-auto-reply, auto-reply-campaigns, conversations/{id}).
Users == 1..NumUsers
CampaignsOf(u) == IF u = 1 THEN {1, 2} ELSE {u + 1}
Campaigns == UNION {CampaignsOf(u) : u \in Users}
ConvsOf(c) == IF c = 1 THEN {1, 2} ELSE {}
Convs == UNION {ConvsOf(c) : c \in Campaigns}

RECURSIVE Ordered(_)
Ordered(S) ==
    IF S = {} THEN <<>>
    ELSE LET x == CHOOSE y \in S : \A z \in S : y <= z
         IN <<x>> \o Ordered(S \ {x})

\* Gmail message ids: <<k, i>> is the i-th message of the contact in the thread
\* of conversation k, OwnMsg the campaign email the worker sent, which every
\* thread starts with.
OwnMsg == <<0, 0>>
MsgIds == Convs \X (1..MaxMsgs)

\* thread.messages of a conversation: the worker's email, then the contact's replies.
Thread(conv) == <<OwnMsg>> \o [i \in 1..mail[conv] |-> <<conv, i>>]

RECURSIVE Sum(_, _)
Sum(f, S) ==
    IF S = {} THEN 0
    ELSE LET x == CHOOSE y \in S : TRUE IN f[x] + Sum(f, S \ {x})

\* fromHeader.toLowerCase().includes(conversation.contact_email.toLowerCase())
FromContact(m) == m # OwnMsg

\* checkMessageProcessed: false when the lookup fails, data.exists otherwise
MessageProcessed(m, lookupOk) == lookupOk /\ m \in known

\* Mutant: the cap is tested only where an auto-reply is about to be sent.
CapNotTestedFirst(count, cap) == FALSE

\* if (conversation.auto_replies_sent >= campaign.max_replies_per_thread) continue
CapReached(count, cap) == count >= cap

\* if (campaign.auto_reply_enabled &&
\*     conversation.auto_replies_sent < campaign.max_replies_per_thread)
MayAutoReply(on, count, cap) == on /\ count < cap

NoPass == [success |-> FALSE, autoRepliesSent |-> -1]

Bump(n, cap) == IF n < cap THEN n + 1 ELSE n

PollerStart ==
    /\ ppc = "idle"
    /\ usersLeft = <<>>
    /\ campsLeft = <<>>
    /\ convsLeft = <<>>
    /\ msgsLeft = <<>>
    /\ snap = [k \in Convs |-> 0]
    /\ autoReplies = 0
    /\ totalAutoReplies = 0
    /\ sentInPass = 0
    /\ passResult = NoPass
    /\ mail = [k \in Convs |-> 0]
    /\ known = {}
    /\ autoCount = [k \in Convs |-> 0]
    /\ sentAuto = [k \in Convs |-> 0]
    /\ recordPosts = [m \in MsgIds |-> 0]
    /\ reRecorded = FALSE
    /\ curPosted = FALSE
    /\ shouldReply = FALSE
    /\ userFailed = FALSE
    /\ listOk = FALSE
    /\ entered = {}
    /\ campThrew = FALSE

\* A contact answers in the Gmail thread of one of its conversations. A pass
\* reads each thread once, so a message that arrives during a pass is seen as
\* one that arrived before the pass or as one that arrived after it.
ContactReplies ==
    /\ ppc = "idle"
    /\ Sum(mail, Convs) < MaxMsgs
    /\ \E k \in Convs : mail' = [mail EXCEPT ![k] = @ + 1]
    /\ UNCHANGED <<ppc, usersLeft, campsLeft, convsLeft, msgsLeft, snap,
                   autoReplies, totalAutoReplies, sentInPass, passResult, enabled,
                   maxReplies, known, autoCount, sentAuto, recordPosts, reRecorded,
                   curPosted, shouldReply, userFailed, listOk, entered, campThrew>>

\* run: totalAutoReplies = 0;   (totalReplies, the count of replies found, is
\* reported only and not modelled)
\* usersWithCampaigns = await fetchUsersWithAutoReplyCampaigns()   ([] on failure)
StartPass ==
    /\ ppc = "idle"
    /\ \E ok \in BOOLEAN : usersLeft' = IF ok THEN Ordered(Users) ELSE <<>>
    /\ totalAutoReplies' = 0
    /\ sentInPass' = 0
    /\ passResult' = NoPass
    /\ curPosted' = FALSE
    /\ shouldReply' = FALSE
    /\ userFailed' = FALSE
    /\ listOk' = FALSE
    /\ entered' = {}
    /\ campThrew' = FALSE
    /\ ppc' = "user"
    /\ UNCHANGED <<campsLeft, convsLeft, msgsLeft, snap, autoReplies,
                   enabled, maxReplies, mail, known, autoCount, sentAuto,
                   recordPosts, reRecorded>>

\* Mutant: the per-user catch rethrows, which ends the pass.
UserFailureAborts == "idle"

\* Where the per-user catch (lines 82-84) leaves the pass: at the next user.
UserFailurePpc == "user"

\* for (const userData of usersWithCampaigns) { try {
\*     tokenInfo = await getValidAccessToken(...)
\*     campaigns = await fetchAutoReplyCampaigns(userData.user_id)   ([] on failure)
\* } catch (error) { console.error(...) } }
\* return { success: true, repliesFound, autoRepliesSent }
HandleUser ==
    /\ ppc = "user"
    /\ IF usersLeft = <<>>
       THEN /\ passResult' = [success |-> TRUE, autoRepliesSent |-> totalAutoReplies]
            /\ ppc' = "idle"
            /\ userFailed' = FALSE
            /\ campThrew' = FALSE
            /\ UNCHANGED <<usersLeft, campsLeft, listOk, entered>>
       ELSE LET u == Head(usersLeft) IN
            /\ entered' = {}
            /\ UNCHANGED campThrew
            /\ \E tokenOk \in BOOLEAN, fetched \in BOOLEAN :
                  IF ~tokenOk
                  THEN /\ userFailed' = TRUE
                       /\ IF UserFailurePpc = "user"
                          THEN /\ usersLeft' = Tail(usersLeft)
                               /\ UNCHANGED passResult
                          ELSE /\ usersLeft' = usersLeft
                               /\ passResult' = [NoPass EXCEPT !.autoRepliesSent = 0]
                       /\ ppc' = UserFailurePpc
                       /\ listOk' = FALSE
                       /\ UNCHANGED campsLeft
                  ELSE /\ campsLeft' = IF fetched THEN Ordered(CampaignsOf(u)) ELSE <<>>
                       /\ listOk' = fetched
                       /\ ppc' = "campaign"
                       /\ UNCHANGED <<usersLeft, userFailed, passResult>>
    /\ UNCHANGED <<convsLeft, msgsLeft, snap, autoReplies,
                   totalAutoReplies, sentInPass, enabled, maxReplies, mail, known, autoCount,
                   sentAuto, recordPosts, reRecorded, curPosted, shouldReply>>

\* for (const campaign of campaigns) { checkCampaignReplies(tokenInfo.token, campaign) }
\* checkCampaignReplies: autoReplies = 0;
\*     conversations = await fetchConversations(campaign.id)   ([] on failure)
EnterCampaign ==
    /\ ppc = "campaign"
    /\ IF campsLeft = <<>>
       THEN /\ usersLeft' = Tail(usersLeft)
            /\ ppc' = "user"
            /\ entered' = {}
            /\ listOk' = FALSE
            /\ UNCHANGED <<convsLeft, snap, autoReplies>>
       ELSE LET c == Head(campsLeft) IN
            /\ entered' = entered \cup {c}
            /\ autoReplies' = 0
            /\ UNCHANGED listOk
            /\ \E ok \in BOOLEAN :
                  /\ convsLeft' = IF ok THEN Ordered(ConvsOf(c)) ELSE <<>>
                  /\ snap' = IF ok THEN autoCount ELSE snap
            /\ ppc' = "conv"
            /\ UNCHANGED usersLeft
    /\ UNCHANGED <<campsLeft, msgsLeft, totalAutoReplies, sentInPass, passResult,
                   enabled, maxReplies, mail, known, autoCount, sentAuto, recordPosts,
                   reRecorded, curPosted, shouldReply, userFailed, campThrew>>

\* for (const conversation of conversations) {
\*     if (auto_replies_sent >= max_replies_per_thread) continue;
\*     const { thread, error } = await getThread(...); if (error || !thread) continue;
\* } ... return { replies, autoReplies }   (totalAutoReplies += autoReplies)
EnterConversation ==
    /\ ppc = "conv"
    /\ IF convsLeft = <<>>
       THEN /\ totalAutoReplies' = totalAutoReplies + autoReplies
            /\ campsLeft' = Tail(campsLeft)
            /\ ppc' = "campaign"
            /\ autoReplies' = 0
            /\ snap' = [k \in Convs |-> 0]
            /\ UNCHANGED <<convsLeft, msgsLeft>>
       ELSE LET k == Head(convsLeft) IN
            /\ UNCHANGED <<snap, autoReplies>>
            /\ IF CapReached(snap[k], maxReplies)
               THEN /\ convsLeft' = Tail(convsLeft)
                    /\ ppc' = "conv"
                    /\ UNCHANGED msgsLeft
               ELSE \E threadOk \in BOOLEAN :
                      IF threadOk
                      THEN /\ msgsLeft' = Thread(k)
                           /\ ppc' = "msg"
                           /\ UNCHANGED convsLeft
                      ELSE /\ convsLeft' = Tail(convsLeft)
                           /\ ppc' = "conv"
                           /\ UNCHANGED msgsLeft
            /\ UNCHANGED <<totalAutoReplies, campsLeft>>
    /\ UNCHANGED <<usersLeft, passResult, enabled,
                   maxReplies, mail, known, autoCount, sentAuto, recordPosts,
                   reRecorded, curPosted, shouldReply, sentInPass, userFailed, listOk, entered,
                   campThrew>>

\* Next message of the thread, or next conversation after the last one.
AfterMessage ==
    /\ msgsLeft' = Tail(msgsLeft)
    /\ curPosted' = FALSE
    /\ shouldReply' = FALSE
    /\ IF Len(msgsLeft) > 1
       THEN ppc' = "msg" /\ UNCHANGED convsLeft
       ELSE ppc' = "conv" /\ convsLeft' = Tail(convsLeft)

\* for (const message of messages) {
\*     fromHeader = getHeader(message, 'From')        (throws on a header without name)
\*     if (!fromHeader...includes(contact_email)) continue;
\*     if (await checkMessageProcessed(messageId)) continue;
\* } catch (error) { console.error(`Error checking campaign ...`) }
InspectMessage ==
    /\ ppc = "msg"
    /\ LET m == Head(msgsLeft) IN
       \/ /\ campThrew' = TRUE
          /\ convsLeft' = <<>>
          /\ msgsLeft' = <<>>
          /\ ppc' = "conv"
          /\ UNCHANGED <<curPosted, shouldReply>>
       \/ /\ ~FromContact(m)
          /\ AfterMessage
          /\ UNCHANGED campThrew
       \/ /\ FromContact(m)
          /\ \E lookupOk \in BOOLEAN :
                IF MessageProcessed(m, lookupOk)
                THEN AfterMessage
                ELSE /\ ppc' = "record"
                     /\ UNCHANGED <<msgsLeft, convsLeft, curPosted, shouldReply>>
          /\ UNCHANGED campThrew
    /\ UNCHANGED <<usersLeft, campsLeft, snap, autoReplies,
                   totalAutoReplies, sentInPass, passResult, enabled, maxReplies, mail, known,
                   autoCount, sentAuto, recordPosts, reRecorded,
                   userFailed, listOk, entered>>

\* Mutant: the reply is recorded only for campaigns with auto-reply enabled.
RecordReplyWhenEnabled ==
    /\ ppc = "record"
    /\ LET m == Head(msgsLeft)
           k == Head(convsLeft) IN
       /\ \E postOk \in BOOLEAN :
             known' = IF postOk /\ enabled THEN known \cup {m} ELSE known
       /\ recordPosts' = IF enabled THEN [recordPosts EXCEPT ![m] = Bump(@, 2)]
                         ELSE recordPosts
       /\ reRecorded' = (reRecorded \/ (enabled /\ m \in known))
       /\ IF MayAutoReply(enabled, snap[k], maxReplies)
          THEN ppc' = "generate" /\ curPosted' = TRUE /\ UNCHANGED <<msgsLeft, convsLeft, shouldReply>>
          ELSE AfterMessage
    /\ UNCHANGED <<usersLeft, campsLeft, snap, autoReplies,
                   totalAutoReplies, sentInPass, passResult, enabled, maxReplies, mail,
                   autoCount, sentAuto, userFailed, listOk, entered,
                   campThrew>>

\* await recordReply({... gmail_message_id: messageId ...})   (failures swallowed)
\* if (campaign.auto_reply_enabled && auto_replies_sent < max_replies_per_thread) {...}
RecordReply ==
    /\ ppc = "record"
    /\ LET m == Head(msgsLeft)
           k == Head(convsLeft) IN
       /\ \E postOk \in BOOLEAN : known' = IF postOk THEN known \cup {m} ELSE known
       /\ recordPosts' = [recordPosts EXCEPT ![m] = Bump(@, 2)]
       /\ reRecorded' = (reRecorded \/ m \in known)
       /\ IF MayAutoReply(enabled, snap[k], maxReplies)
          THEN ppc' = "generate" /\ curPosted' = TRUE /\ UNCHANGED <<msgsLeft, convsLeft, shouldReply>>
          ELSE AfterMessage
    /\ UNCHANGED <<usersLeft, campsLeft, snap, autoReplies,
                   totalAutoReplies, sentInPass, passResult, enabled, maxReplies, mail,
                   autoCount, sentAuto, userFailed, listOk, entered,
                   campThrew>>

\* Mutant: the auto-reply is sent whatever aiResponse.shouldReply says.
GenerateReplyAlwaysSends ==
    /\ ppc = "generate"
    /\ \E answer \in BOOLEAN : shouldReply' = answer
    /\ ppc' = "send"
    /\ UNCHANGED <<msgsLeft, convsLeft, curPosted>>
    /\ UNCHANGED <<usersLeft, campsLeft, snap, autoReplies,
                   totalAutoReplies, sentInPass, passResult, enabled, maxReplies, mail, known,
                   autoCount, sentAuto, recordPosts, reRecorded,
                   userFailed, listOk, entered, campThrew>>

\* conversationHistory = await fetchConversationHistory(conversation.id)
\* aiResponse = await generateAIReply(emailContext)
\* if (!aiResponse.shouldReply) continue;
GenerateReply ==
    /\ ppc = "generate"
    /\ \E answer \in BOOLEAN :
          IF answer
          THEN /\ ppc' = "send"
               /\ shouldReply' = answer
               /\ UNCHANGED <<msgsLeft, convsLeft, curPosted>>
          ELSE AfterMessage
    /\ UNCHANGED <<usersLeft, campsLeft, snap, autoReplies,
                   totalAutoReplies, sentInPass, passResult, enabled, maxReplies, mail, known,
                   autoCount, sentAuto, recordPosts, reRecorded,
                   userFailed, listOk, entered, campThrew>>

\* sendResult = await sendEmail(accessToken, {... threadId, inReplyTo, references})
\* if (sendResult.success) { autoReplies++; ... } else { console.error(...) }
SendAutoReply ==
    /\ ppc = "send"
    /\ LET k == Head(convsLeft) IN
       \E ok \in BOOLEAN :
          IF ok
          THEN /\ autoReplies' = autoReplies + 1
               /\ sentInPass' = sentInPass + 1
               /\ sentAuto' = [sentAuto EXCEPT ![k] = Bump(@, maxReplies + 1)]
               /\ ppc' = "recordAuto"
               /\ UNCHANGED <<msgsLeft, convsLeft, curPosted, shouldReply>>
          ELSE /\ AfterMessage
               /\ UNCHANGED <<autoReplies, sentAuto, sentInPass>>
    /\ UNCHANGED <<usersLeft, campsLeft, snap,
                   totalAutoReplies, passResult, enabled, maxReplies, mail, known,
                   autoCount, recordPosts, reRecorded,
                   userFailed, listOk, entered, campThrew>>

\* await recordAutoReply({...})   (failures swallowed); the backend counts the
\* auto-reply in the conversation's auto_replies_sent when the post arrives.
RecordAutoReply ==
    /\ ppc = "recordAuto"
    /\ LET k == Head(convsLeft) IN
       \E postOk \in BOOLEAN :
          autoCount' = IF postOk THEN [autoCount EXCEPT ![k] = Bump(@, maxReplies)]
                       ELSE autoCount
    /\ AfterMessage
    /\ UNCHANGED <<usersLeft, campsLeft, snap, autoReplies,
                   totalAutoReplies, sentInPass, passResult, enabled, maxReplies, mail, known,
                   sentAuto, recordPosts, reRecorded,
                   userFailed, listOk, entered, campThrew>>

\* ------------------------------------------------------- concurrent reply checks
\* The scheduled pass (cron "* * * * *") and the on-demand task; neither
\* declares a queue, a concurrency limit or an idempotency key.
Instances == {"scheduled", "onDemand"}
Inbound == 1..MaxInbound

RaceStart ==
    /\ rpc = [i \in Instances |-> "idle"]
    /\ rleft = [i \in Instances |-> <<>>]
    /\ rsnap = [i \in Instances |-> 0]
    /\ rmail = 0
    /\ rknown = {}
    /\ rcount = 0
    /\ rrecords = [m \in Inbound |-> 0]
    /\ ranswers = [m \in Inbound |-> 0]
    /\ rfaulty = FALSE

\* The contact answers in the thread.
RaceContactReplies ==
    /\ rmail < MaxInbound
    /\ rmail' = rmail + 1
    /\ UNCHANGED <<rpc, rleft, rsnap, rknown, rcount, rrecords, ranswers, rfaulty>>

\* conversations = await fetchConversations(campaign.id);
\* if (auto_replies_sent >= max_replies_per_thread) continue;
\* { thread, error } = await getThread(...); messages = thread.messages || []
RaceEnterConversation(i) ==
    /\ rpc[i] = "idle"
    /\ rsnap' = [rsnap EXCEPT ![i] = rcount]
    /\ IF CapReached(rcount, maxReplies)
       THEN UNCHANGED <<rpc, rleft>>
       ELSE \E threadOk \in BOOLEAN :
              IF threadOk /\ rmail > 0
              THEN /\ rleft' = [rleft EXCEPT ![i] = [m \in 1..rmail |-> m]]
                   /\ rpc' = [rpc EXCEPT ![i] = "msg"]
              ELSE UNCHANGED <<rpc, rleft>>
    /\ UNCHANGED <<rmail, rknown, rcount, rrecords, ranswers, rfaulty>>

\* continue: the next message of the thread, or the end of the check
RaceAfterMessage(i) ==
    /\ rleft' = [rleft EXCEPT ![i] = Tail(@)]
    /\ rpc' = [rpc EXCEPT ![i] = IF Len(rleft[i]) > 1 THEN "msg" ELSE "idle"]

\* processed = await checkMessageProcessed(messageId); if (processed) continue;
RaceInspectMessage(i) ==
    /\ rpc[i] = "msg"
    /\ \E lookupOk \in BOOLEAN :
          /\ rfaulty' = (rfaulty \/ ~lookupOk)
          /\ IF lookupOk /\ Head(rleft[i]) \in rknown
             THEN RaceAfterMessage(i)
             ELSE /\ rpc' = [rpc EXCEPT ![i] = "record"]
                  /\ UNCHANGED rleft
    /\ UNCHANGED <<rsnap, rmail, rknown, rcount, rrecords, ranswers>>

\* await recordReply({... gmail_message_id: messageId ...})
\* if (campaign.auto_reply_enabled && auto_replies_sent < max_replies_per_thread)
RaceRecordReply(i) ==
    /\ rpc[i] = "record"
    /\ LET m == Head(rleft[i]) IN
       /\ \E postOk \in BOOLEAN :
             /\ rknown' = IF postOk THEN rknown \cup {m} ELSE rknown
             /\ rfaulty' = (rfaulty \/ ~postOk)
       /\ rrecords' = [rrecords EXCEPT ![m] = Bump(@, 2)]
       /\ IF MayAutoReply(enabled, rsnap[i], maxReplies)
          THEN rpc' = [rpc EXCEPT ![i] = "send"] /\ UNCHANGED rleft
          ELSE RaceAfterMessage(i)
    /\ UNCHANGED <<rsnap, rmail, rcount, ranswers>>

\* aiResponse = await generateAIReply(...); if (!aiResponse.shouldReply) continue;
\* sendResult = await sendEmail(...); if (sendResult.success) { autoReplies++; ... }
RaceSendAutoReply(i) ==
    /\ rpc[i] = "send"
    /\ LET m == Head(rleft[i]) IN
       \E answer \in BOOLEAN, ok \in BOOLEAN :
          IF answer /\ ok
          THEN /\ ranswers' = [ranswers EXCEPT ![m] = Bump(@, 2)]
               /\ rpc' = [rpc EXCEPT ![i] = "recordAuto"]
               /\ UNCHANGED rleft
          ELSE /\ RaceAfterMessage(i)
               /\ UNCHANGED ranswers
    /\ UNCHANGED <<rsnap, rmail, rknown, rcount, rrecords, rfaulty>>

\* await recordAutoReply({...}): the backend counts the auto-reply
RaceRecordAutoReply(i) ==
    /\ rpc[i] = "recordAuto"
    /\ \E postOk \in BOOLEAN :
          rcount' = IF postOk THEN Bump(rcount, maxReplies + 1) ELSE rcount
    /\ RaceAfterMessage(i)
    /\ UNCHANGED <<rsnap, rmail, rknown, rrecords, ranswers, rfaulty>>

\* ------------------------------------------------------- Gmail transport
\* What an HTTP endpoint does with one request: fetch rejects (network
\* failure), or a response arrives with a status, a status text and a body
\* that is not JSON ("malformed"), JSON without the fields the caller reads
\* ("empty") or JSON with them ("full").
StatusTexts == {"", "Forbidden"}
Bodies == {"malformed", "empty", "full"}
FetchOutcomes ==
    {[kind |-> "rejected", ok |-> FALSE, statusText |-> "", body |-> "malformed"]}
      \cup [kind : {"response"}, ok : BOOLEAN, statusText : StatusTexts, body : Bodies]

\* throw new Error(msg) inside sendEmail's try
SendThrow(msg) ==
    [threw |-> TRUE, success |-> FALSE, messageId |-> "undefined", error |-> msg]

\* An optional string of EmailData: absent, empty, or a text.
Truthy(s) == s \notin {"undefined", ""}

\* Buffer.from(message).toString('base64') with +, / and trailing = replaced
Base64Url(message) == [base64url |-> message]

\* Mutant: the References header is left out.
CreateRawEmailNoReferences(emailData) ==
    Base64Url(
        <<[name |-> "To", value |-> "to"]>>
        \o (IF Truthy(emailData.from) THEN <<[name |-> "From", value |-> emailData.from]>> ELSE <<>>)
        \o (IF Truthy(emailData.inReplyTo)
            THEN <<[name |-> "In-Reply-To", value |-> emailData.inReplyTo]>> ELSE <<>>)
        \o <<[name |-> "Subject", value |-> "=?UTF-8?B?subject?="],
             [name |-> "MIME-Version", value |-> "1.0"],
             [name |-> "Content-Type", value |-> "text/html; charset=UTF-8"]>>)

\* createRawEmail: To, From if given, In-Reply-To if given, References if
\* given, Subject, MIME-Version, Content-Type; then base64url.
CreateRawEmail(emailData) ==
    Base64Url(
        <<[name |-> "To", value |-> "to"]>>
        \o (IF Truthy(emailData.from) THEN <<[name |-> "From", value |-> emailData.from]>> ELSE <<>>)
        \o (IF Truthy(emailData.inReplyTo)
            THEN <<[name |-> "In-Reply-To", value |-> emailData.inReplyTo]>> ELSE <<>>)
        \o (IF Truthy(emailData.references)
            THEN <<[name |-> "References", value |-> emailData.references]>> ELSE <<>>)
        \o <<[name |-> "Subject", value |-> "=?UTF-8?B?subject?="],
             [name |-> "MIME-Version", value |-> "1.0"],
             [name |-> "Content-Type", value |-> "text/html; charset=UTF-8"]>>)

NoRequest == [raw |-> Base64Url(<<>>), threadId |-> "undefined"]

\* const requestBody = { raw: rawMessage };
\* if (emailData.threadId) requestBody.threadId = emailData.threadId
SendRequest(emailData) ==
    [raw |-> CreateRawEmail(emailData),
     threadId |-> IF Truthy(emailData.threadId) THEN emailData.threadId ELSE "undefined"]

\* The try block of sendEmail after the request is built: POST it, throw on a
\* non-OK response with the provider's error message or the status text,
\* parse the body of an OK response.
SendAttempt(emailData, r) ==
    IF r.kind = "rejected" THEN SendThrow("fetch failed")
    ELSE IF ~r.ok
         THEN SendThrow(IF r.body = "full" THEN "provider message" ELSE r.statusText)
    ELSE IF r.body = "malformed" THEN SendThrow("Unexpected token in JSON")
    ELSE [threw |-> FALSE, success |-> TRUE,
          messageId |-> IF r.body = "full" THEN "id" ELSE "undefined",
          error |-> ""]

\* Mutant: sendEmail without its catch.
SendEmailUncaught(emailData, r) == SendAttempt(emailData, r)

\* catch (error) { return { success: false, error: error.message || 'Unknown error' } }
SendEmail(emailData, r) ==
    LET a == SendAttempt(emailData, r) IN
    IF a.threw
    THEN [a EXCEPT !.threw = FALSE,
                   !.error = IF a.error # "" THEN a.error ELSE "Unknown error"]
    ELSE a

OptionalTexts == {"undefined", "", "x1"}

SendEmailCalls ==
    [fn : {"sendEmail"},
     emailData : [from : {"undefined", "me"}, threadId : OptionalTexts,
                  inReplyTo : OptionalTexts, references : OptionalTexts],
     answer : FetchOutcomes]

CallSendEmail ==
    /\ call.fn = "sendEmail"
    /\ ret.pending
    /\ ret' = Ended(SendEmail(call.emailData, call.answer))
    /\ posted' = SendRequest(call.emailData)
    /\ UNCHANGED <<call, processEnv, cvars, pvars, rvars>>

\* Sequences over S of length at most n.
SeqUpTo(S, n) == UNION {[1..k -> S] : k \in 0..n}

\* What a function of the transport hands back: a value, with an error text
\* when it reports a failure, or an exception.
Returned(value, msg) == [threw |-> FALSE, error |-> msg, result |-> value]
Thrown(msg) == [threw |-> TRUE, error |-> msg, result |-> "none"]

\* The try block shared by getInboxMessages, getMessage and getThread: GET,
\* throw `Failed to fetch ...: ${statusText}` on a non-OK response, parse.
ReadAttempt(r) ==
    IF r.kind = "rejected" THEN Thrown("fetch failed")
    ELSE IF ~r.ok THEN Thrown(<<"Failed to fetch", r.statusText>>)
    ELSE IF r.body = "malformed" THEN Thrown("Unexpected token in JSON")
    ELSE Returned(r.body, "")

\* getInboxMessages: { messages: data.messages || [] }, or { messages: [], error }
GetInboxMessages(r) ==
    LET a == ReadAttempt(r) IN
    IF a.threw THEN Returned(<<>>, a.error)
    ELSE Returned(IF a.result = "full" THEN <<"m1">> ELSE <<>>, "")

\* getMessage / getThread: { message: data } / { thread: data }, or { error }
GetMessage(r) ==
    LET a == ReadAttempt(r) IN
    IF a.threw THEN Returned("undefined", a.error) ELSE Returned(a.result, "")

GetThread(r) ==
    LET a == ReadAttempt(r) IN
    IF a.threw THEN Returned("undefined", a.error) ELSE Returned(a.result, "")

\* A MIME part: its mimeType and whether body.data is present and non-empty.
MimeTypes == {"text/plain", "text/html", "other"}
Parts == [mimeType : MimeTypes, data : BOOLEAN]

\* A header entry: its name ("undefined" when the entry has none) in some
\* spelling, and its value.  Lower is String.prototype.toLowerCase.
HeaderNames == {"From", "FROM", "Subject"}
Lower(n) ==
    IF n \in {"From", "FROM", "from"} THEN "from"
    ELSE IF n \in {"Message-ID", "Message-Id", "message-id"} THEN "message-id"
    ELSE "subject"
Headers == [name : HeaderNames \cup {"undefined"}, value : {"v1", "v2"}]

\* Gmail messages: with or without a payload; a payload has parts (none is
\* the same as an empty list for the code), maybe a direct body, and headers.
Messages ==
    [hasPayload : BOOLEAN, parts : SeqUpTo(Parts, MaxParts), body : BOOLEAN,
     headers : SeqUpTo(Headers, MaxHeaders)]

\* Buffer.from(data, 'base64').toString('utf-8') of the data found at `where`;
\* the empty string '' is the text <<>>.
Decoded(where) == <<"utf-8 text of", where>>

\* for (const part of payload.parts): the first part that is text/plain with
\* data or text/html with data.
RECURSIVE FirstTextPart(_, _)
FirstTextPart(parts, i) ==
    IF i > Len(parts) THEN 0
    ELSE IF parts[i].mimeType \in {"text/plain", "text/html"} /\ parts[i].data THEN i
    ELSE FirstTextPart(parts, i + 1)

\* extractEmailBody: const payload = message.payload; if (payload.parts) ...
ExtractEmailBody(message) ==
    IF ~message.hasPayload THEN Thrown("TypeError")
    ELSE LET i == FirstTextPart(message.parts, 1) IN
         IF i > 0 THEN Returned(Decoded(<<"part", i>>), "")
         ELSE IF message.body THEN Returned(Decoded(<<"body">>), "")
         ELSE Returned(<<>>, "")

\* headers.find((h) => h.name.toLowerCase() === headerName.toLowerCase()):
\* the entries are visited in order until one matches.
RECURSIVE FindHeader(_, _, _)
FindHeader(headers, headerName, i) ==
    IF i > Len(headers) THEN Returned("undefined", "")
    ELSE IF headers[i].name = "undefined" THEN Thrown("TypeError")
    ELSE IF Lower(headers[i].name) = Lower(headerName) THEN Returned(headers[i].value, "")
    ELSE FindHeader(headers, headerName, i + 1)

\* getHeader: const headers = message.payload?.headers || []
GetHeader(message, headerName) ==
    FindHeader(IF message.hasPayload THEN message.headers ELSE <<>>, headerName, 1)

\* The headers of a message Gmail delivered from the contact, and such
\* messages: every entry is named and a Message-ID is among them (Gmail adds
\* one to a message that arrives without).
InboundHeaders == [name : {"From", "Message-ID", "Message-Id"}, value : {"v1", "v2"}]
InboundMessages ==
    {m \in [hasPayload : {TRUE}, parts : {<<>>}, body : {FALSE},
            headers : SeqUpTo(InboundHeaders, MaxHeaders)] :
        \E i \in 1..Len(m.headers) : Lower(m.headers[i].name) = "message-id"}

Conversations == [gmail_thread_id : {"t1", "t2"}]

\* const originalMessageId = getHeader(message, 'Message-ID');
\* sendEmail(accessToken, { to, subject, body,
\*     threadId: conversation.gmail_thread_id,
\*     inReplyTo: originalMessageId, references: originalMessageId })
AutoReplyEmailData(conversation, message) ==
    LET originalMessageId == GetHeader(message, "Message-ID").result IN
    [from |-> "undefined", threadId |-> conversation.gmail_thread_id,
     inReplyTo |-> originalMessageId, references |-> originalMessageId]

AutoReplyCalls ==
    [fn : {"autoReplySend"}, conversation : Conversations, message : InboundMessages,
     answer : FetchOutcomes]

CallAutoReplySend ==
    /\ call.fn = "autoReplySend"
    /\ ret.pending
    /\ ret' = Ended(SendEmail(AutoReplyEmailData(call.conversation, call.message),
                              call.answer))
    /\ posted' = SendRequest(AutoReplyEmailData(call.conversation, call.message))
    /\ UNCHANGED <<call, processEnv, cvars, pvars, rvars>>

ReadCalls ==
    [fn : {"getInboxMessages", "getMessage", "getThread"}, answer : FetchOutcomes]

ExtractCalls ==
    [fn : {"extractEmailBody"},
     message : {m \in Messages : m.headers = <<>> /\ (~m.hasPayload => m.parts = <<>> /\ ~m.body)}]

HeaderCalls ==
    [fn : {"getHeader"},
     message : {m \in Messages : m.parts = <<>> /\ ~m.body /\ (~m.hasPayload => m.headers = <<>>)},
     headerName : {"from", "Subject"}]

CallRead ==
    /\ call.fn \in {"getInboxMessages", "getMessage", "getThread"}
    /\ ret.pending
    /\ ret' = Ended(CASE call.fn = "getInboxMessages" -> GetInboxMessages(call.answer)
                      [] call.fn = "getMessage" -> GetMessage(call.answer)
                      [] call.fn = "getThread" -> GetThread(call.answer))
    /\ UNCHANGED <<call, posted, processEnv, cvars, pvars, rvars>>

CallExtractEmailBody ==
    /\ call.fn = "extractEmailBody"
    /\ ret.pending
    /\ ret' = Ended(ExtractEmailBody(call.message))
    /\ UNCHANGED <<call, posted, processEnv, cvars, pvars, rvars>>

CallGetHeader ==
    /\ call.fn = "getHeader"
    /\ ret.pending
    /\ ret' = Ended(GetHeader(call.message, call.headerName))
    /\ UNCHANGED <<call, posted, processEnv, cvars, pvars, rvars>>

\* ------------------------------------------------------- token refresher
\* Times are milliseconds since the epoch, as Date.getTime() gives them.
\* A date string is absent (undefined or ''), unparseable, or an ISO string
\* of some instant; ToISOString and ParseDate are Date.prototype.toISOString
\* and new Date(string).getTime(), NaN standing for the Invalid Date.
NaN == -1
AbsentDate == [kind |-> "absent", ms |-> 0]
InvalidDate == [kind |-> "invalid", ms |-> 0]
ToISOString(t) == [kind |-> "iso", ms |-> t]
ParseDate(str) == IF str.kind = "iso" THEN str.ms ELSE NaN

\* a > b for two instants: the strict comparison, a mutation of the next one
After(a, b) == a > b

\* now >= new Date(expiryDate.getTime() - bufferMs)
AtLeast(a, b) == a >= b

\* isTokenExpired: bufferMinutes is the list of the arguments that follow
\* tokenExpiry, empty when the caller leaves the default.
IsTokenExpired(tokenExpiry, bufferMinutes, now) ==
    IF tokenExpiry.kind = "absent" THEN FALSE
    ELSE LET expiryDate == ParseDate(tokenExpiry)
             bufferMs == (IF bufferMinutes = <<>> THEN defaultBufferMinutes
                          ELSE bufferMinutes[1]) * 60 * 1000
         IN  expiryDate # NaN /\ AtLeast(now, expiryDate - bufferMs)

\* What the OAuth token endpoint answers to the exchange: the request is
\* rejected, or a response comes with a JSON body or an unparseable one,
\* an access_token or none, and expires_in (a list, empty when absent).
TokenAnswers ==
    {[kind |-> "rejected", ok |-> FALSE, json |-> FALSE, access_token |-> "", expires_in |-> <<>>]}
      \cup [kind : {"response"}, ok : BOOLEAN, json : BOOLEAN,
            access_token : {"", "new"}, expires_in : {<<>>, <<1>>, <<7200>>}]

RefreshThrow(msg) ==
    [threw |-> TRUE, error |-> <<"Token refresh failed", msg>>,
     access_token |-> "", expiry_date |-> 0]

\* refreshGoogleToken; `later` is Date.now() once the response is parsed.
\* data.expires_in || 3600 : the endpoint's lifetimes are positive.
RefreshGoogleToken(r, later) ==
    IF r.kind = "rejected" THEN RefreshThrow("fetch failed")
    ELSE IF ~r.ok THEN RefreshThrow("statusText")
    ELSE IF ~r.json THEN RefreshThrow("Unexpected token in JSON")
    ELSE IF r.access_token = "" THEN RefreshThrow("No access token received")
    ELSE [threw |-> FALSE, error |-> <<>>, access_token |-> r.access_token,
          expiry_date |-> later + (IF r.expires_in = <<>> THEN defaultExpiresIn
                                   ELSE r.expires_in[1]) * 1000]

\* the test below without the refresh token: a mutation of it
NeedsRefreshAnyway(tokenInfo, now) ==
    IsTokenExpired(tokenInfo.tokenExpiry, <<>>, now)

\* isTokenExpired(tokenInfo.tokenExpiry) && tokenInfo.refreshToken
NeedsRefresh(tokenInfo, now) ==
    IsTokenExpired(tokenInfo.tokenExpiry, <<>>, now) /\ tokenInfo.refreshToken # ""

\* getValidAccessToken; `fetched` tells whether the token endpoint was called.
GetValidAccessToken(tokenInfo, now, r, later) ==
    IF NeedsRefresh(tokenInfo, now)
    THEN LET refreshed == RefreshGoogleToken(r, later) IN
         IF refreshed.threw
         THEN [threw |-> TRUE, fetched |-> TRUE, token |-> "", expiry |-> AbsentDate]
         ELSE [threw |-> FALSE, fetched |-> TRUE, token |-> refreshed.access_token,
               expiry |-> ToISOString(refreshed.expiry_date)]
    ELSE [threw |-> FALSE, fetched |-> FALSE, token |-> tokenInfo.accessToken,
          expiry |-> IF tokenInfo.tokenExpiry.kind = "absent"
                     THEN ToISOString(now + defaultLifetimeMs)
                     ELSE tokenInfo.tokenExpiry]

\* The expiry the tokens carry, and the clock around each buffer's boundary.
ExpiryMs == 10 * 60 * 1000
BufferArgs == {<<>>, <<0>>, <<1>>}
Nows ==
    {ExpiryMs - b * 60 * 1000 + d : b \in {0, 1, defaultBufferMinutes}, d \in -MaxSkew..MaxSkew}
DateStrings == {AbsentDate, InvalidDate, ToISOString(ExpiryMs)}
TokenInfos == [accessToken : {"old"}, refreshToken : {"", "rt"}, tokenExpiry : DateStrings]

IsTokenExpiredCalls ==
    [fn : {"isTokenExpired"}, tokenExpiry : DateStrings, bufferMinutes : BufferArgs, now : Nows]

GetValidAccessTokenCalls ==
    [fn : {"getValidAccessToken"}, tokenInfo : TokenInfos, now : Nows,
     answer : TokenAnswers, elapsed : 0..1]

CallIsTokenExpired ==
    /\ call.fn = "isTokenExpired"
    /\ ret.pending
    /\ ret' = [pending |-> FALSE, threw |-> FALSE,
               value |-> IsTokenExpired(call.tokenExpiry, call.bufferMinutes, call.now)]
    /\ UNCHANGED <<call, posted, processEnv, cvars, pvars, rvars>>

CallGetValidAccessToken ==
    /\ call.fn = "getValidAccessToken"
    /\ ret.pending
    /\ ret' = Ended(GetValidAccessToken(call.tokenInfo, call.now, call.answer,
                                        call.now + call.elapsed))
    /\ UNCHANGED <<call, posted, processEnv, cvars, pvars, rvars>>

\* ------------------------------------------------------- reply agent
\* A text is the set of the fragments it contains, the empty set being '';
\* String.prototype.includes is membership.  The fragments of an inbound
\* body are written as the contact typed them:
Vocabulary ==
    {"Hello", "UNSUBSCRIBE", "Not Interested", "stop", "URGENT", "asap", "Yes", "love"}

\* String.prototype.toLowerCase on the fragments
ToLowerCase(w) ==
    CASE w = "Hello" -> "hello"
      [] w = "UNSUBSCRIBE" -> "unsubscribe"
      [] w = "Not Interested" -> "not interested"
      [] w = "URGENT" -> "urgent"
      [] w = "Yes" -> "yes"
      [] w = "{{NAME}}" -> "{{name}}"
      [] w = "{{Company}}" -> "{{company}}"
      [] w = "{{Other}}" -> "{{other}}"
      [] w = "Les <LES@acme.com>" -> "les <les@acme.com>"
      [] w = "LES@acme.com" -> "les@acme.com"
      [] OTHER -> w

unsubscribePatterns ==
    {"unsubscribe", "remove me", "stop emailing", "opt out", "take me off",
     "don't contact", "not interested", "leave me alone", "stop", "no thanks"}
urgentPatterns == {"urgent", "asap", "emergency", "immediately", "help!"}
positivePatterns == {"interested", "tell me more", "sounds great", "yes", "definitely", "love"}

\* The patterns that are substrings of a lower-case fragment.
PatternsIn(lw) ==
    IF lw = "not interested" THEN {"not interested", "interested"}
    ELSE {lw} \cap (unsubscribePatterns \cup urgentPatterns \cup positivePatterns)

\* patterns.some(p => lowerBody.includes(p))
SomeIncluded(patterns, emailBody) ==
    \E w \in emailBody : PatternsIn(ToLowerCase(w)) \cap patterns # {}

\* the classifier with the urgency test first: a mutation of the next one
QuickSentimentUrgentFirst(emailBody) ==
    IF SomeIncluded(urgentPatterns, emailBody) THEN "urgent"
    ELSE IF SomeIncluded(unsubscribePatterns, emailBody) THEN "negative"
    ELSE IF SomeIncluded(positivePatterns, emailBody) THEN "positive"
    ELSE "neutral"

\* quickSentimentCheck
QuickSentimentCheck(emailBody) ==
    IF SomeIncluded(unsubscribePatterns, emailBody) THEN "negative"
    ELSE IF SomeIncluded(urgentPatterns, emailBody) THEN "urgent"
    ELSE IF SomeIncluded(positivePatterns, emailBody) THEN "positive"
    ELSE "neutral"

EmailBodies == {b \in SUBSET Vocabulary : Cardinality(b) <= MaxWords}

QuickSentimentCheckCalls == [fn : {"quickSentimentCheck"}, emailBody : EmailBodies]

CallQuickSentimentCheck ==
    /\ call.fn = "quickSentimentCheck"
    /\ ret.pending
    /\ ret' = [pending |-> FALSE, threw |-> FALSE, value |-> QuickSentimentCheck(call.emailBody)]
    /\ UNCHANGED <<call, posted, processEnv, cvars, pvars, rvars>>

\* The three generateAIReply in the sources: with calendar tools
\* (replyAgent.ts:198), without tools (replyAgent.ts:474), and without tools
\* but with the SHOULD_NOT_REPLY instruction in its prompt (part_001:33).
Variants == {"tools", "plain", "sentinel"}

\* process.env: the three names the key is looked up under ("" when unset).
Envs ==
    [GOOGLE_GENERATIVE_AI_API_KEY : {"", "k1"}, GOOGLE_GEMINI_API_KEY : {"", "k2"},
     GOOGLE_API_KEY : {"", "k3"}]

\* no provider key is set under any name
NoEnv ==
    [GOOGLE_GENERATIVE_AI_API_KEY |-> "", GOOGLE_GEMINI_API_KEY |-> "",
     GOOGLE_API_KEY |-> ""]

ApiKey(env) ==
    IF env.GOOGLE_GENERATIVE_AI_API_KEY # "" THEN env.GOOGLE_GENERATIVE_AI_API_KEY
    ELSE IF env.GOOGLE_GEMINI_API_KEY # "" THEN env.GOOGLE_GEMINI_API_KEY
    ELSE env.GOOGLE_API_KEY

\* EmailContext, as far as the returned value depends on it.
Contexts ==
    [contactName : {"", "Ann"}, replySubject : {"Hello", "Re: Hello"},
     replyBody : {{"Hello"}, {"UNSUBSCRIBE", "Yes"}},
     calToolsEnabled : {"undefined", "false", "true"}]

\* context.replySubject.replace(/^Re:\s*/i, '')
StripRe(subject) == IF subject = "Re: Hello" THEN "Hello" ELSE subject
ReplySubject(context) == <<"Re: ", StripRe(context.replySubject)>>

\* getFallbackReply
GetFallbackReply(context) ==
    [threw |-> FALSE,
     subject |-> ReplySubject(context),
     body |-> {"Hi", IF context.contactName # "" THEN context.contactName ELSE "there",
               "Thank you for getting back to us!"},
     shouldReply |-> TRUE, sentiment |-> "neutral", bookingUrl |-> ""]

\* the provider's exception leaving generateAIReply: a mutation of the catch
ProviderFailureRaised(context) ==
    [threw |-> TRUE, subject |-> <<>>, body |-> {}, shouldReply |-> FALSE,
     sentiment |-> "neutral", bookingUrl |-> ""]

\* catch (error) { return getFallbackReply(context); }
ProviderFailure(context) == GetFallbackReply(context)

\* What generateText does: the steps it ran, each with the text the model
\* gave and the results of the tools it called, and whether it then threw
\* (provider or tool failure) instead of returning the steps.
ToolResults ==
    {[toolName |-> "getCalendarAvailability", success |-> FALSE, booking_url |-> ""]}
      \cup [toolName : {"bookMeeting"}, success : BOOLEAN, booking_url : {"", "u1"}]
ToolTexts == {{}, {"reply"}, {"reply", "u1"}}
PlainTexts == {{}, {"reply"}, {"SHOULD_NOT_REPLY", "reply"}}
ToolSteps == [text : ToolTexts, toolResults : SeqUpTo(ToolResults, 1)]
PlainSteps == [text : PlainTexts, toolResults : {<<>>}]
Runs(steps) == [steps : UNION {[1..k -> steps] : k \in 1..MaxSteps}, threw : BOOLEAN]
PlainRuns == [steps : [1..1 -> PlainSteps], threw : BOOLEAN]

\* bookingResult.success: bookingUrl = bookingResult.booking_url, appended
\* to the response text when it is missing from it.  acc = [text, bookingUrl]
ScanToolResult(acc, toolResult) ==
    IF toolResult.toolName = "bookMeeting" /\ toolResult.success
    THEN [text |-> IF toolResult.booking_url # "" /\ toolResult.booking_url \notin acc.text
                   THEN acc.text \cup {"Here's your booking link: ", toolResult.booking_url}
                   ELSE acc.text,
          bookingUrl |-> toolResult.booking_url]
    ELSE acc

\* for (const step of result.steps) for (const toolResult of toolResults)
RECURSIVE ScanSteps(_, _, _)
ScanSteps(acc, steps, i) ==
    IF i > Len(steps) THEN acc
    ELSE ScanSteps(IF steps[i].toolResults = <<>> THEN acc
                   ELSE ScanToolResult(acc, steps[i].toolResults[1]),
                   steps, i + 1)

\* responseText.includes('SHOULD_NOT_REPLY') in any variant: a mutation
SaysDoNotReplyAnyVariant(variant, responseText) == "SHOULD_NOT_REPLY" \in responseText

\* if (responseText.includes('SHOULD_NOT_REPLY')), in part_001 only
SaysDoNotReply(variant, responseText) ==
    variant = "sentinel" /\ "SHOULD_NOT_REPLY" \in responseText

\* The booking URLs that bookMeeting handed back with success during the call.
Booked(variant, env, run) ==
    IF ApiKey(env) = "" THEN {}
    ELSE {run.steps[i].toolResults[1].booking_url :
            i \in {j \in 1..Len(run.steps) :
                     /\ run.steps[j].toolResults # <<>>
                     /\ run.steps[j].toolResults[1].toolName = "bookMeeting"
                     /\ run.steps[j].toolResults[1].success
                     /\ run.steps[j].toolResults[1].booking_url # ""}}

\* Mutant: the sentiment is read off the text the model produced.
SentimentOfResponse(context, responseText) == QuickSentimentCheck(responseText)

\* const sentiment = quickSentimentCheck(context.replyBody)
SentimentOf(context, responseText) == QuickSentimentCheck(context.replyBody)

\* generateAIReply
GenerateAIReply(variant, env, context, run) ==
    IF ApiKey(env) = "" THEN GetFallbackReply(context)
    ELSE IF run.threw THEN ProviderFailure(context)
    ELSE LET text == run.steps[Len(run.steps)].text
             acc == IF variant = "tools"
                    THEN ScanSteps([text |-> text, bookingUrl |-> ""], run.steps, 1)
                    ELSE [text |-> text, bookingUrl |-> ""]
         IN  IF SaysDoNotReply(variant, text)
             THEN [threw |-> FALSE, subject |-> <<>>, body |-> {}, shouldReply |-> FALSE,
                   sentiment |-> "negative", bookingUrl |-> ""]
             ELSE [threw |-> FALSE, subject |-> ReplySubject(context), body |-> acc.text,
                   shouldReply |-> TRUE, sentiment |-> SentimentOf(context, acc.text),
                   bookingUrl |-> acc.bookingUrl]

\* Tools are offered to the model only by the first variant and only when
\* context.calToolsEnabled is true; the other calls are single generations.
\* process.env after generateAIReply.  The tools variant writes the key it
\* found into GOOGLE_GENERATIVE_AI_API_KEY before generateText and puts the
\* former value back after it, if (originalApiKey), outside any finally;
\* the other variants pass the key to the provider and leave process.env.
EnvAfter(variant, env, run) ==
    IF ApiKey(env) = "" \/ variant # "tools" THEN env
    ELSE LET originalApiKey == env.GOOGLE_GENERATIVE_AI_API_KEY
             written == [env EXCEPT !.GOOGLE_GENERATIVE_AI_API_KEY = ApiKey(env)]
         IN  IF ~run.threw /\ originalApiKey # ""
             THEN [written EXCEPT !.GOOGLE_GENERATIVE_AI_API_KEY = originalApiKey]
             ELSE written

GenerateAIReplyCalls ==
    [fn : {"generateAIReply"}, variant : {"tools"}, env : Envs,
     context : {c \in Contexts : c.calToolsEnabled = "true"}, run : Runs(ToolSteps)]
      \cup [fn : {"generateAIReply"}, variant : {"tools"}, env : Envs,
            context : {c \in Contexts : c.calToolsEnabled # "true"}, run : PlainRuns]
      \cup [fn : {"generateAIReply"}, variant : {"plain", "sentinel"}, env : Envs,
            context : {c \in Contexts : c.calToolsEnabled = "undefined"}, run : PlainRuns]

CallGenerateAIReply ==
    /\ call.fn = "generateAIReply"
    /\ ret.pending
    /\ ret' = Ended(GenerateAIReply(call.variant, call.env, call.context, call.run))
    /\ processEnv' = EnvAfter(call.variant, call.env, call.run)
    /\ UNCHANGED <<call, posted, cvars, pvars, rvars>>

\* ------------------------------------------------------- reply filter
\* The From headers of the messages of a thread and the contact_email of its
\* conversation.  The contact writes from les@acme.com, in some spelling and
\* maybe with a display name; the worker sends as the user, whose address is
\* me@corp.com or sales@acme.com.
ContactFroms == {"Les <LES@acme.com>", "les@acme.com"}
UserFroms == {"me@corp.com", "sales@acme.com"}
ContactEmails == {"les@acme.com", "LES@acme.com"}

\* The characters of a lower-case text, in runs.
Chars(s) ==
    CASE s = "" -> <<>>
      [] s = "les <les@acme.com>" -> <<"les <", "les@acme.com", ">">>
      [] s = "sales@acme.com" -> <<"sa", "les@acme.com">>
      [] OTHER -> <<s>>

\* String.prototype.includes
Includes(text, part) ==
    \E i \in 1..(Len(Chars(text)) + 1) :
        /\ i + Len(Chars(part)) - 1 <= Len(Chars(text))
        /\ SubSeq(Chars(text), i, i + Len(Chars(part)) - 1) = Chars(part)

\* const fromHeader = getHeader(message, 'From') || '';
\* if (!fromHeader.toLowerCase().includes(conversation.contact_email.toLowerCase())) continue;
IsFromContact(message, conversation) ==
    LET found == GetHeader(message, "From") IN
    IF found.threw THEN found
    ELSE LET fromHeader == IF Truthy(found.result) THEN found.result ELSE ""
         IN  Returned(Includes(ToLowerCase(fromHeader),
                               ToLowerCase(conversation.contact_email)), "")

\* A message of the thread: who sent it, and the message Gmail returns.
ThreadMessage(sender, headers) ==
    [sentBy |-> sender,
     message |-> [hasPayload |-> TRUE, parts |-> <<>>, body |-> FALSE, headers |-> headers]]

FromHeaders(values) == {<<[name |-> n, value |-> v]>> : n \in {"From", "FROM"}, v \in values}

ThreadMessages ==
    {ThreadMessage("contact", h) : h \in FromHeaders(ContactFroms)}
      \cup {ThreadMessage("us", h) : h \in FromHeaders(UserFroms) \cup {<<>>}}

IsFromContactCalls ==
    [fn : {"isFromContact"}, threadMessage : ThreadMessages,
     conversation : [contact_email : ContactEmails]]

CallIsFromContact ==
    /\ call.fn = "isFromContact"
    /\ ret.pending
    /\ ret' = Ended(IsFromContact(call.threadMessage.message, call.conversation))
    /\ UNCHANGED <<call, posted, processEnv, cvars, pvars, rvars>>

\* ------------------------------------------------------- template renderer
\* A text is the sequence of its tokens: literal chunks and placeholders,
\* the latter in the spelling the template author used.
Tokens ==
    {"Hi ", ", from ", "{{name}}", "{{NAME}}", "{{email}}", "{{Company}}", "{{phone}}",
     "{{other}}", "{{Other}}"}

\* The spec's example, "Hi {{name}}, from {{company}}".
ExampleTemplate == <<"Hi ", "{{name}}", ", from ", "{{Company}}">>

Templates == SeqUpTo(Tokens, MaxTemplate) \cup {ExampleTemplate}

\* The values of a custom field (Record<string, any>): its type, and the
\* string String(value) gives for it.
CustomValues ==
    {[kind |-> "string", text |-> "X"], [kind |-> "string", text |-> ""],
     [kind |-> "number", text |-> "7"], [kind |-> "number", text |-> "0"],
     [kind |-> "boolean", text |-> "false"], [kind |-> "null", text |-> "null"],
     [kind |-> "undefined", text |-> "undefined"], [kind |-> "string", text |-> "{{name}}"]}

\* the values JavaScript's || passes over
Falsy(value) ==
    \/ value.kind \in {"null", "undefined"}
    \/ value.kind = "string" /\ value.text = ""
    \/ value.kind = "number" /\ value.text = "0"
    \/ value.kind = "boolean" /\ value.text = "false"

\* String(value || '')
StringOrEmpty(value) == IF Falsy(value) THEN "" ELSE value.text

\* Contact; an absent field is "", which the code's || treats alike.  A
\* field value may itself be placeholder text.
Contacts ==
    [name : {"", "Ann"}, email : {"ann@x.com"}, company : {"", "Acme", "{{name}}"},
     phone : {"", "555"},
     custom_fields : {<<>>} \cup {<<[key |-> "other", value |-> v]>> : v \in CustomValues}]

\* contact.email.split('@')[0]
LocalPart(email) == IF email = "ann@x.com" THEN "ann" ELSE email

\* a token matched letter for letter: a mutation of the next definition
MatchesExactly(piece, placeholder) == piece = placeholder

\* Mutant: the pattern accepts any key between the braces.
MatchesAnyKey(piece, placeholder) ==
    ToLowerCase(piece) \in {"{{name}}", "{{email}}", "{{company}}", "{{phone}}", "{{other}}"}

\* /\{\{placeholder\}\}/gi on one token
Matches(piece, placeholder) == ToLowerCase(piece) = placeholder

\* result.replace(regex, value): every matching token becomes the value
RECURSIVE ReplaceAll(_, _, _)
ReplaceAll(text, placeholder, value) ==
    IF text = <<>> THEN <<>>
    ELSE (IF Matches(Head(text), placeholder)
          THEN (IF value = "" THEN <<>> ELSE <<value>>)
          ELSE <<Head(text)>>)
         \o ReplaceAll(Tail(text), placeholder, value)

\* for (const [key, value] of Object.entries(contact.custom_fields))
RECURSIVE ReplaceCustom(_, _, _)
ReplaceCustom(text, fields, i) ==
    IF i > Len(fields) THEN text
    ELSE ReplaceCustom(ReplaceAll(text, "{{" \o fields[i].key \o "}}",
                                  StringOrEmpty(fields[i].value)),
                       fields, i + 1)

\* personalizeText
PersonalizeText(text, contact) ==
    LET r1 == ReplaceAll(text, "{{name}}",
                         IF contact.name # "" THEN contact.name ELSE LocalPart(contact.email))
        r2 == ReplaceAll(r1, "{{email}}", contact.email)
        r3 == ReplaceAll(r2, "{{company}}", contact.company)
        r4 == ReplaceAll(r3, "{{phone}}", contact.phone)
    IN  ReplaceCustom(r4, contact.custom_fields, 1)

PersonalizeTextCalls == [fn : {"personalizeText"}, text : Templates, contact : Contacts]

CallPersonalizeText ==
    /\ call.fn = "personalizeText"
    /\ ret.pending
    /\ ret' = [pending |-> FALSE, threw |-> FALSE,
               value |-> PersonalizeText(call.text, call.contact)]
    /\ UNCHANGED <<call, posted, processEnv, cvars, pvars, rvars>>

\* ------------------------------------------------------- specifications

InitCampaign ==
    /\ \E valid \in BOOLEAN, refreshPresent \in BOOLEAN :
          CampaignStart(valid, refreshPresent)
    /\ PollerStart
    /\ enabled = TRUE
    /\ maxReplies = 1
    /\ call = NoCall
    /\ ret = NoRet
    /\ posted = NoRequest
    /\ processEnv = NoEnv
    /\ RaceStart

NextCampaign ==
    \/ RejectPayload /\ UNCHANGED <<pvars, lvars, rvars>>
    \/ MarkRunning /\ UNCHANGED <<pvars, lvars, rvars>>
    \/ InitialToken /\ UNCHANGED <<pvars, lvars, rvars>>
    \/ FetchTemplate /\ UNCHANGED <<pvars, lvars, rvars>>
    \/ FetchPage /\ UNCHANGED <<pvars, lvars, rvars>>
    \/ Revalidate /\ UNCHANGED <<pvars, lvars, rvars>>
    \/ Send /\ UNCHANGED <<pvars, lvars, rvars>>
    \/ LogEmail /\ UNCHANGED <<pvars, lvars, rvars>>
    \/ UpdateProgress /\ UNCHANGED <<pvars, lvars, rvars>>
    \/ Complete /\ UNCHANGED <<pvars, lvars, rvars>>
    \/ FailCampaign /\ UNCHANGED <<pvars, lvars, rvars>>

SpecCampaign == InitCampaign /\ [][NextCampaign]_vars

\* One task instance is one thread of control that runs until it returns or throws.
FairCampaign == SpecCampaign /\ WF_vars(NextCampaign)

InitPoller ==
    /\ CampaignStart(TRUE, TRUE)
    /\ PollerStart
    /\ enabled \in BOOLEAN
    /\ maxReplies \in 1..MaxCap
    /\ call = NoCall
    /\ ret = NoRet
    /\ posted = NoRequest
    /\ processEnv = NoEnv
    /\ RaceStart

NextPoller ==
    \/ ContactReplies /\ UNCHANGED <<cvars, lvars, rvars>>
    \/ StartPass /\ UNCHANGED <<cvars, lvars, rvars>>
    \/ HandleUser /\ UNCHANGED <<cvars, lvars, rvars>>
    \/ EnterCampaign /\ UNCHANGED <<cvars, lvars, rvars>>
    \/ EnterConversation /\ UNCHANGED <<cvars, lvars, rvars>>
    \/ InspectMessage /\ UNCHANGED <<cvars, lvars, rvars>>
    \/ RecordReply /\ UNCHANGED <<cvars, lvars, rvars>>
    \/ GenerateReply /\ UNCHANGED <<cvars, lvars, rvars>>
    \/ SendAutoReply /\ UNCHANGED <<cvars, lvars, rvars>>
    \/ RecordAutoReply /\ UNCHANGED <<cvars, lvars, rvars>>

SpecPoller == InitPoller /\ [][NextPoller]_vars

InitRace ==
    /\ CampaignStart(TRUE, TRUE)
    /\ PollerStart
    /\ enabled \in BOOLEAN
    /\ maxReplies \in 1..MaxCap
    /\ call = NoCall
    /\ ret = NoRet
    /\ posted = NoRequest
    /\ processEnv = NoEnv
    /\ RaceStart

NextRace ==
    \/ RaceContactReplies /\ UNCHANGED <<cvars, pvars, lvars>>
    \/ \E i \in Instances : RaceEnterConversation(i) /\ UNCHANGED <<cvars, pvars, lvars>>
    \/ \E i \in Instances : RaceInspectMessage(i) /\ UNCHANGED <<cvars, pvars, lvars>>
    \/ \E i \in Instances : RaceRecordReply(i) /\ UNCHANGED <<cvars, pvars, lvars>>
    \/ \E i \in Instances : RaceSendAutoReply(i) /\ UNCHANGED <<cvars, pvars, lvars>>
    \/ \E i \in Instances : RaceRecordAutoReply(i) /\ UNCHANGED <<cvars, pvars, lvars>>

\* Each task instance is its own thread of control.
SpecRace == InitRace /\ [][NextRace]_vars

Calls ==
    SendEmailCalls \cup AutoReplyCalls \cup ReadCalls \cup ExtractCalls \cup HeaderCalls
      \cup IsTokenExpiredCalls \cup GetValidAccessTokenCalls
      \cup QuickSentimentCheckCalls \cup GenerateAIReplyCalls
      \cup PersonalizeTextCalls \cup IsFromContactCalls

InitLibrary ==
    /\ CampaignStart(TRUE, TRUE)
    /\ PollerStart
    /\ enabled = TRUE
    /\ maxReplies = 1
    /\ call \in Calls
    /\ ret = NoRet
    /\ posted = NoRequest
    /\ processEnv = (IF call.fn = "generateAIReply" THEN call.env ELSE NoEnv)
    /\ RaceStart

NextLibrary ==
    \/ CallSendEmail
    \/ CallAutoReplySend
    \/ CallRead
    \/ CallExtractEmailBody
    \/ CallGetHeader
    \/ CallIsTokenExpired
    \/ CallGetValidAccessToken
    \/ CallQuickSentimentCheck
    \/ CallGenerateAIReply
    \/ CallPersonalizeText
    \/ CallIsFromContact

SpecLibrary == InitLibrary /\ [][NextLibrary]_vars

\* ---------------------------------------------------------------- claims
\* ----- reply poller

\* C1: in every conversation the number of auto-replies the poller has sent
\* never exceeds the campaign's max_replies_per_thread.
C1_CapRespected ==
    \A k \in Convs : sentAuto[k] <= maxReplies

\* C2: record-reply is posted at most once per Gmail message id, and never
\* for an id the backend already knows.
C2_RecordedOnce ==
    /\ \A m \in MsgIds : recordPosts[m] <= 1
    /\ ~reRecorded

C9_PassReturns ==
    (ppc = "idle" /\ passResult # NoPass) =>
        (passResult.success /\ usersLeft = <<>>)

C9_AllCampaignsChecked ==
    (ppc = "campaign" /\ campsLeft = <<>> /\ listOk) =>
        entered = CampaignsOf(Head(usersLeft))

C9_UserStep ==
    /\ (ppc = "user" /\ usersLeft # <<>>) =>
          \/ ppc' = "campaign" /\ usersLeft' = usersLeft
          \/ ppc' = "user" /\ usersLeft' = Tail(usersLeft)
    /\ (userFailed' /\ ~userFailed) =>
          (ppc' = "user" /\ usersLeft' = Tail(usersLeft))
    /\ (ppc # "idle" /\ usersLeft' # usersLeft) => usersLeft' = Tail(usersLeft)

C9_CampaignStep ==
    /\ (campThrew' /\ ~campThrew) =>
          (ppc' = "conv" /\ convsLeft' = <<>> /\ campsLeft' = campsLeft
             /\ usersLeft' = usersLeft)
    /\ (ppc = "conv" /\ convsLeft = <<>>) =>
          (ppc' = "campaign" /\ campsLeft' = Tail(campsLeft))
    /\ (ppc # "user" /\ campsLeft' # campsLeft) => campsLeft' = Tail(campsLeft)

\* C9: a failure while handling one user or one campaign never aborts the
\* scheduled pass: the user's failure moves the pass to the next user, a
\* campaign's failure to the user's next campaign, a user leaves the loop only
\* after each of its listed campaigns has been checked, and the pass returns
\* only after the last user, with success = true.
C9_FailuresDoNotAbortPass ==
    /\ []C9_PassReturns
    /\ []C9_AllCampaignsChecked
    /\ [][C9_UserStep]_vars
    /\ [][C9_CampaignStep]_vars

\* The last user has been handled in a pass in which one user's token could
\* not be obtained and a campaign check of another user ended in its catch.
C9_Witness ==
    /\ ppc = "user"
    /\ usersLeft = <<>>
    /\ userFailed
    /\ campThrew

C11_SendGuard ==
    ppc \in {"send", "recordAuto"} =>
        /\ enabled
        /\ snap[Head(convsLeft)] < maxReplies
        /\ shouldReply
        /\ FromContact(Head(msgsLeft))

C11_Counted ==
    /\ ppc # "idle" => sentInPass = totalAutoReplies + autoReplies
    /\ (ppc = "idle" /\ passResult # NoPass) => passResult.autoRepliesSent = sentInPass
    /\ ppc = "recordAuto" => sentInPass >= 1

C11_SendStep ==
    /\ sentInPass' # sentInPass =>
          \/ ppc = "idle" /\ sentInPass' = 0
          \/ ppc = "send" /\ ppc' = "recordAuto" /\ sentInPass' = sentInPass + 1
    /\ ppc' = "recordAuto" => (ppc = "send" /\ sentInPass' = sentInPass + 1)
    /\ autoCount' # autoCount => ppc = "recordAuto"

\* C11: an auto-reply is sent for a message of the contact only when
\* auto-reply is enabled, the conversation is under its cap (the
\* auto_replies_sent the backend reported for it at poll time is below
\* max_replies_per_thread) and the agent answered shouldReply = true;
\* record-auto-reply is posted only right after a send that succeeded; and
\* the autoRepliesSent a pass returns is the number of its successful sends.
C11_AutoReplyGated ==
    /\ []C11_SendGuard
    /\ []C11_Counted
    /\ [][C11_SendStep]_vars

\* A pass has returned autoRepliesSent = 1 after one send that succeeded and
\* whose record-auto-reply post reached the backend.
C11_Witness ==
    /\ ppc = "idle"
    /\ passResult.success
    /\ passResult.autoRepliesSent = 1
    /\ sentInPass = 1
    /\ autoCount[1] = 1

C10_RecordedFirst ==
    ppc \in {"generate", "send", "recordAuto"} =>
        (curPosted /\ recordPosts[Head(msgsLeft)] >= 1)

C10_UnknownIsRecorded ==
    /\ (ppc = "msg" /\ FromContact(Head(msgsLeft)) /\ Head(msgsLeft) \notin known) =>
          \/ ppc' = "record" /\ msgsLeft' = msgsLeft
          \/ campThrew' /\ msgsLeft' = <<>> /\ convsLeft' = <<>>
    /\ ppc = "record" =>
          recordPosts'[Head(msgsLeft)] = Bump(recordPosts[Head(msgsLeft)], 2)
    /\ ppc' \in {"generate", "send", "recordAuto"} =>
          ppc \in {"record", "generate", "send"}

C29_ConversationLeft ==
    /\ ppc \in {"conv", "msg", "record", "generate", "send", "recordAuto"}
    /\ convsLeft # <<>>
    /\ ppc' = "conv"

\* C29: in checkCampaignReplies a failure confined to one conversation (its
\* thread fetch failing, or an exception raised while one of its messages
\* is handled) does not stop the loop: the remaining conversations of the
\* campaign are still processed in that pass.
C29_FailureKeepsLoop ==
    [][C29_ConversationLeft => convsLeft' = Tail(convsLeft)]_vars

\* C36: over any sequence of reply-poll passes, at most one auto-reply is
\* sent in answer to a given inbound Gmail message id, also when the
\* record-reply post or the idempotency lookup for that message fails in
\* some pass.  The thread of conversation k holds mail[k] messages of the
\* contact and auto-replies answer these only, so the auto-replies sent in k
\* are then at most mail[k].
C36_OneReplyPerMessage ==
    \A k \in Convs : sentAuto[k] <= mail[k]

\* C37: the poller records and answers only thread messages whose From
\* header contains the conversation's contact email, whatever the case of
\* the letters; a message the worker or the user sent is filtered out before
\* the idempotency lookup, so it is never recorded and never answered.
C37_OwnMessagesFiltered ==
    (call.fn = "isFromContact" /\ ~ret.pending) =>
        /\ ~ret.threw
        /\ call.threadMessage.sentBy = "us" => ~ret.value.result
        /\ call.threadMessage.sentBy = "contact" => ret.value.result

\* the same for a user whose address does not contain the contact's
C37_FilteredUnlessContained ==
    (call.fn = "isFromContact" /\ ~ret.pending) =>
        /\ ~ret.threw
        /\ (call.threadMessage.sentBy = "us"
              /\ \A i \in 1..Len(call.threadMessage.message.headers) :
                    call.threadMessage.message.headers[i].value # "sales@acme.com")
             => ~ret.value.result
        /\ call.threadMessage.sentBy = "contact" => ret.value.result

\* the conversation at the head of the list has reached its cap
C39_AtCap ==
    /\ ppc = "conv" /\ convsLeft # <<>>
    /\ snap[Head(convsLeft)] >= maxReplies

\* messages are looked up, recorded and answered in conversations under
\* their cap only
C39_HandledUnderCap ==
    ppc \in {"msg", "record", "generate", "send", "recordAuto"} =>
        /\ convsLeft # <<>>
        /\ snap[Head(convsLeft)] < maxReplies

\* the step from a conversation at its cap goes to the next conversation and
\* touches nothing else
C39_SkipStep ==
    C39_AtCap =>
        /\ ppc' = "conv" /\ convsLeft' = Tail(convsLeft)
        /\ msgsLeft' = msgsLeft /\ known' = known /\ recordPosts' = recordPosts
        /\ sentAuto' = sentAuto /\ autoCount' = autoCount
        /\ sentInPass' = sentInPass /\ autoReplies' = autoReplies
        /\ campThrew' = campThrew

\* C39: a conversation whose auto_replies_sent has reached
\* max_replies_per_thread is skipped entirely by a poll pass: its Gmail
\* thread is not fetched, no idempotency lookup is made, and its new inbound
\* messages are neither recorded nor answered in that pass.
C39_CappedConversationSkipped ==
    []C39_HandledUnderCap /\ [][C39_SkipStep]_vars

\* the check of campaign 1 has gone through its conversations, and
\* conversation 1, at its cap, still has an inbound message nobody recorded
C39_Witness ==
    /\ ppc = "conv" /\ convsLeft = <<>> /\ ~campThrew
    /\ snap[1] >= maxReplies
    /\ mail[1] = 2
    /\ <<1, 2>> \notin known /\ recordPosts[<<1, 2>>] = 0

\* ----- concurrent reply checks

\* C23: with two reply checks running at once over the same conversation,
\* and every backend call of the check-then-record sequence succeeding, each
\* inbound message is recorded at most once and answered by at most one
\* auto-reply.
C23_OncePerMessage ==
    ~rfaulty => \A m \in Inbound : rrecords[m] <= 1 /\ ranswers[m] <= 1

\* ----- Gmail transport

\* C12: sendEmail never throws; it returns success = true exactly when the
\* fetch resolved with an OK (2xx) response whose body parsed, and in every
\* other case (fetch rejected, non-2xx response, malformed body) a result
\* with success = false and a non-empty error text.
C12_SendEmailNeverThrows ==
    (call.fn = "sendEmail" /\ ~ret.pending) =>
        /\ ~ret.threw
        /\ ret.value.success <=>
              (call.answer.kind = "response" /\ call.answer.ok
                 /\ call.answer.body # "malformed")
        /\ ret.value.success => call.answer.ok
        /\ ~ret.value.success => ret.value.error # ""

\* A non-2xx response without status text and without a JSON body came back
\* as a failure result.
C12_Witness ==
    /\ call.fn = "sendEmail"
    /\ ~ret.pending
    /\ call.answer.kind = "response"
    /\ ~call.answer.ok
    /\ call.answer.statusText = ""
    /\ call.answer.body = "malformed"
    /\ ret.value = [threw |-> FALSE, success |-> FALSE, messageId |-> "undefined",
                    error |-> "Unknown error"]

ReadFns == {"getInboxMessages", "getMessage", "getThread", "extractEmailBody", "getHeader"}

\* C13: the read-side operations never throw, whatever their input (a
\* message without payload and a header entry without name included); when
\* they report a failure the result is empty.
C13_ReadSideNeverThrows ==
    (call.fn \in ReadFns /\ ~ret.pending) =>
        /\ ~ret.threw
        /\ ret.value.error # "" =>
               ret.value.result = (IF call.fn = "getInboxMessages" THEN <<>> ELSE "undefined")

\* the first part of the given type that has data, 0 if there is none
RECURSIVE C30_FirstOfType(_, _, _)
C30_FirstOfType(parts, type, i) ==
    IF i > Len(parts) THEN 0
    ELSE IF parts[i].mimeType = type /\ parts[i].data THEN i
    ELSE C30_FirstOfType(parts, type, i + 1)

\* where the body is to come from: a part, the direct body, or nowhere
C30_Preferred(message) ==
    LET plain == C30_FirstOfType(message.parts, "text/plain", 1)
        html == C30_FirstOfType(message.parts, "text/html", 1)
    IN  IF plain > 0 THEN <<"part", plain>>
        ELSE IF html > 0 THEN <<"part", html>>
        ELSE IF message.parts = <<>> /\ message.body THEN <<"body">>
        ELSE <<>>

\* C30: extractEmailBody returns the text/plain part whenever the payload
\* has one with data, whatever the order of the parts; only without such a
\* part the text/html part; only when the payload has no parts the direct
\* body; otherwise the empty string.
C30_PlainPreferred ==
    (call.fn = "extractEmailBody" /\ call.message.hasPayload /\ ~ret.pending) =>
        /\ ~ret.threw
        /\ ret.value.result = (IF C30_Preferred(call.message) = <<>> THEN <<>>
                               ELSE Decoded(C30_Preferred(call.message)))

\* the headers of the message a request carries, by name
C31_HeaderValues(request, name) ==
    {request.raw.base64url[i].value :
        i \in {j \in 1..Len(request.raw.base64url) : request.raw.base64url[j].name = name}}

\* what a request carries for an optional string the caller passed
C31_Carried(s) == IF Truthy(s) THEN {s} ELSE {}

\* the Message-ID of an inbound message: the value of its first Message-ID header
C31_MessageId(message) ==
    LET first == CHOOSE i \in 1..Len(message.headers) :
                     /\ Lower(message.headers[i].name) = "message-id"
                     /\ \A j \in 1..(i - 1) : Lower(message.headers[j].name) # "message-id"
    IN  message.headers[first].value

\* C31: every auto-reply the poller sends carries the conversation's Gmail
\* threadId in the request body and In-Reply-To and References headers equal
\* to the inbound message's Message-ID; sendEmail includes threadId,
\* In-Reply-To and References exactly when they are provided.
C31_RepliesAreThreaded ==
    /\ (call.fn = "autoReplySend" /\ ~ret.pending) =>
          /\ posted.threadId = call.conversation.gmail_thread_id
          /\ C31_HeaderValues(posted, "In-Reply-To") = {C31_MessageId(call.message)}
          /\ C31_HeaderValues(posted, "References") = {C31_MessageId(call.message)}
    /\ (call.fn = "sendEmail" /\ ~ret.pending) =>
          /\ posted.threadId =
                (IF Truthy(call.emailData.threadId) THEN call.emailData.threadId
                 ELSE "undefined")
          /\ C31_HeaderValues(posted, "In-Reply-To") = C31_Carried(call.emailData.inReplyTo)
          /\ C31_HeaderValues(posted, "References") = C31_Carried(call.emailData.references)

\* an auto-reply to a message whose Message-Id header follows its From header
C31_Witness ==
    /\ call.fn = "autoReplySend" /\ ~ret.pending /\ ret.value.success
    /\ call.message.headers = <<[name |-> "From", value |-> "v1"],
                                [name |-> "Message-Id", value |-> "v2"]>>
    /\ posted.threadId = "t2"
    /\ C31_HeaderValues(posted, "In-Reply-To") = {"v2"}
    /\ C31_HeaderValues(posted, "References") = {"v2"}

\* ----- token refresher

C14_Boundary(c) ==
    ExpiryMs - (IF c.bufferMinutes = <<>> THEN 5 ELSE c.bufferMinutes[1]) * 60000

\* C14: isTokenExpired is false whenever the expiry is absent and, for a
\* valid expiry, true exactly when now >= expiry - bufferMinutes (5 minutes
\* by default): true at the boundary, false one millisecond before it.
C14_IsTokenExpired ==
    (call.fn = "isTokenExpired" /\ ~ret.pending) =>
        /\ ~ret.threw
        /\ call.tokenExpiry.kind = "absent" => ret.value = FALSE
        /\ call.tokenExpiry.kind = "iso" =>
              /\ ret.value = (call.now >= C14_Boundary(call))
              /\ call.now = C14_Boundary(call) => ret.value = TRUE
              /\ call.now = C14_Boundary(call) - 1 => ret.value = FALSE

C14_Witness ==
    /\ call.fn = "isTokenExpired" /\ ~ret.pending
    /\ call.tokenExpiry.kind = "iso" /\ call.bufferMinutes = <<>>
    /\ call.now = C14_Boundary(call)
    /\ ret.value = TRUE

C15_Expiring ==
    /\ call.tokenInfo.tokenExpiry.kind = "iso"
    /\ call.now >= call.tokenInfo.tokenExpiry.ms - 5 * 60000

C15_Done == call.fn = "getValidAccessToken" /\ ~ret.pending

\* C15: getValidAccessToken calls the token endpoint if and only if the
\* token is expiring and a refresh token is present; a successful exchange
\* returns the new access token with expiry now + expires_in (3600 s when
\* absent); otherwise no network call is made and the input token comes
\* back unchanged with its expiry (now + 1 h when absent).
C15_RefreshIffNeeded ==
    C15_Done =>
        /\ ret.value.fetched = (C15_Expiring /\ call.tokenInfo.refreshToken = "rt")
        /\ (ret.value.fetched /\ ~ret.threw) =>
              /\ ret.value.token = call.answer.access_token
              /\ ret.value.token # ""
              /\ ret.value.expiry.kind = "iso"
              /\ ret.value.expiry.ms =
                    call.now + call.elapsed
                      + 1000 * (IF call.answer.expires_in = <<>> THEN 3600
                                ELSE call.answer.expires_in[1])
        /\ ~ret.value.fetched =>
              /\ ~ret.threw
              /\ ret.value.token = call.tokenInfo.accessToken
              /\ ret.value.expiry =
                    (IF call.tokenInfo.tokenExpiry.kind = "absent"
                     THEN [kind |-> "iso", ms |-> call.now + 3600 * 1000]
                     ELSE call.tokenInfo.tokenExpiry)

\* an expired token without refresh token came back unchanged
C15_Witness ==
    /\ C15_Done /\ C15_Expiring
    /\ call.tokenInfo.refreshToken = ""
    /\ ~ret.value.fetched /\ ret.value.token = "old"

\* ----- reply agent

C16_Done == call.fn = "generateAIReply" /\ ~ret.pending

C16_NoKey ==
    /\ call.env.GOOGLE_GENERATIVE_AI_API_KEY = ""
    /\ call.env.GOOGLE_GEMINI_API_KEY = ""
    /\ call.env.GOOGLE_API_KEY = ""

\* C16: generateAIReply never raises; without an API key, or when the
\* provider call or a tool call throws, it returns the static fallback:
\* shouldReply = true, neutral sentiment, the canned acknowledgment.
C16_NeverRaises ==
    C16_Done =>
        /\ ~ret.threw
        /\ (C16_NoKey \/ call.run.threw) =>
              /\ ret.value.shouldReply
              /\ ret.value.sentiment = "neutral"
              /\ "Thank you for getting back to us!" \in ret.value.body

\* the provider threw after a step and the fallback came back
C16_Witness ==
    /\ C16_Done /\ ~C16_NoKey /\ call.run.threw
    /\ ~ret.threw /\ ret.value.shouldReply
    /\ "Thank you for getting back to us!" \in ret.value.body

\* C17: every booking URL that a bookMeeting tool call returned with
\* success = true during the call is contained in the body returned,
\* whatever happens in the later steps of the call.
C17_BookingUrlSurfaces ==
    C16_Done =>
        \A u \in Booked(call.variant, call.env, call.run) : u \in ret.value.body

C19_Precedence ==
    (call.fn = "quickSentimentCheck" /\ ~ret.pending) =>
        LET neg == call.emailBody \cap {"UNSUBSCRIBE", "Not Interested", "stop"} # {}
            urg == call.emailBody \cap {"URGENT", "asap"} # {}
            pos == call.emailBody \cap {"Yes", "love"} # {}
        IN  /\ ~ret.threw
            /\ ret.value = (IF neg THEN "negative" ELSE IF urg THEN "urgent"
                            ELSE IF pos THEN "positive" ELSE "neutral")
            /\ "UNSUBSCRIBE" \in call.emailBody => ret.value = "negative"

C19_Witness ==
    /\ call.fn = "quickSentimentCheck" /\ ~ret.pending
    /\ call.emailBody = {"UNSUBSCRIBE", "URGENT"}
    /\ ret.value = "negative"

\* C32 as stated: the sentiment of every AgentResponse equals
\* quickSentimentCheck applied to the inbound message body, whatever the
\* model outputs, whether the provider fails, and whether an API key is
\* configured.
C32_SentimentFromInbound ==
    C16_Done => ret.value.sentiment = QuickSentimentCheck(call.context.replyBody)

\* C32 as amended: the sentiment of every AgentResponse built from a model
\* answer equals quickSentimentCheck applied to the inbound message body,
\* whatever the model outputs; the fallback reply (no API key configured, or
\* the provider fails) has the sentiment neutral, and the answer to the
\* SHOULD_NOT_REPLY sentinel the sentiment negative.
C32_SentimentOfModelReplies ==
    C16_Done =>
        ret.value.sentiment =
            (IF C16_NoKey \/ call.run.threw THEN "neutral"
             ELSE IF ~ret.value.shouldReply THEN "negative"
             ELSE QuickSentimentCheck(call.context.replyBody))

\* the model answered an unsubscribe request with a plain reply
C32_Witness ==
    /\ C16_Done /\ ~C16_NoKey /\ ~call.run.threw
    /\ call.context.replyBody = {"UNSUBSCRIBE", "Yes"}
    /\ call.run.steps[Len(call.run.steps)].text = {"reply"}
    /\ ret.value.shouldReply /\ ret.value.sentiment = "negative"

\* C33: generateAIReply leaves GOOGLE_GENERATIVE_AI_API_KEY as it found it:
\* after the call has returned, on the success path and on the exception
\* path, set or unset before, the variable has the value it had before.
C33_KeySettingUnchanged ==
    C16_Done =>
        processEnv.GOOGLE_GENERATIVE_AI_API_KEY = call.env.GOOGLE_GENERATIVE_AI_API_KEY

\* the variable is as it was whenever it was set before the call, or no key
\* is configured, or the key is handed to the provider directly
C33_UnchangedWhenSet ==
    C16_Done /\ (call.env.GOOGLE_GENERATIVE_AI_API_KEY # "" \/ C16_NoKey
                   \/ call.variant # "tools")
        => processEnv = call.env

\* ----- template renderer

\* what the rendering of one token is to be
C20_Rendered(piece, contact) ==
    CASE piece \in {"{{name}}", "{{NAME}}"} ->
             <<IF contact.name # "" THEN contact.name ELSE "ann">>
      [] piece = "{{email}}" -> <<contact.email>>
      [] piece = "{{Company}}" -> IF contact.company = "" THEN <<>> ELSE <<contact.company>>
      [] piece = "{{phone}}" -> IF contact.phone = "" THEN <<>> ELSE <<contact.phone>>
      [] OTHER -> <<piece>>

RECURSIVE C20_Expected(_, _)
C20_Expected(text, contact) ==
    IF text = <<>> THEN <<>>
    ELSE C20_Rendered(Head(text), contact) \o C20_Expected(Tail(text), contact)

\* C20: rendering replaces every occurrence, in any letter case, of
\* {{name}} by the contact's name (the local part of the email when the
\* name is absent), {{email}} by the email, {{company}} and {{phone}} by
\* their values or by nothing when absent; "Hi {{name}}, from {{company}}"
\* with name Ann and no company gives "Hi Ann, from ".
C20_StandardPlaceholders ==
    (/\ call.fn = "personalizeText" /\ ~ret.pending
     /\ \A i \in 1..Len(call.text) : call.text[i] \notin {"{{other}}", "{{Other}}"}) =>
        /\ ret.value = C20_Expected(call.text, call.contact)
        /\ (call.text = ExampleTemplate /\ call.contact.name = "Ann" /\ call.contact.company = "")
              => ret.value = <<"Hi ", "Ann", ", from ">>

C20_Witness ==
    /\ call.fn = "personalizeText" /\ ~ret.pending
    /\ call.text = ExampleTemplate
    /\ call.contact.name = "Ann" /\ call.contact.company = ""
    /\ ret.value = <<"Hi ", "Ann", ", from ">>

C21_Custom == call.contact.custom_fields[1].value

\* C21: {{key}} of a custom field is replaced, in any letter case, by the
\* string form of the field's value, and by the empty string only when the
\* value is null or undefined: 0 renders as "0" and false as "false".
C21_CustomFields ==
    (/\ call.fn = "personalizeText" /\ ~ret.pending
     /\ call.contact.custom_fields # <<>>
     /\ call.text \in {<<"{{other}}">>, <<"{{Other}}">>}) =>
        ret.value = (IF C21_Custom.kind \in {"null", "undefined"} \/ C21_Custom.text = ""
                     THEN <<>> ELSE <<C21_Custom.text>>)

C22_Literals == {"Hi ", ", from "}

\* C22 as stated: rendering is idempotent, render(render(t, c), c) =
\* render(t, c), also for contacts whose field values contain placeholder
\* text; a placeholder that matches no field is left verbatim and a text
\* without placeholders is returned unchanged.
C22_Idempotent ==
    (call.fn = "personalizeText" /\ ~ret.pending) =>
        /\ PersonalizeText(ret.value, call.contact) = ret.value
        /\ (call.contact.custom_fields = <<>> /\ call.text = <<"{{other}}">>)
              => ret.value = call.text
        /\ (\A i \in 1..Len(call.text) : call.text[i] \in C22_Literals)
              => ret.value = call.text

\* the placeholders of the standard fields and of the contact's custom fields
C22_FieldPlaceholders(contact) ==
    {"{{name}}", "{{email}}", "{{company}}", "{{phone}}"}
        \cup {"{{" \o contact.custom_fields[i].key \o "}}" :
                  i \in 1..Len(contact.custom_fields)}

\* no placeholder of a field of the contact remains in the text
C22_Resolved(text, contact) ==
    \A i \in 1..Len(text) : ToLowerCase(text[i]) \notin C22_FieldPlaceholders(contact)

\* C22 as amended: render(render(t, c), c) = render(t, c) whenever
\* render(t, c) holds no placeholder of a field of c; a placeholder that
\* matches no field is left verbatim and a text without placeholders is
\* returned unchanged.
C22_IdempotentOnceResolved ==
    (call.fn = "personalizeText" /\ ~ret.pending) =>
        /\ C22_Resolved(ret.value, call.contact)
              => PersonalizeText(ret.value, call.contact) = ret.value
        /\ (call.contact.custom_fields = <<>> /\ call.text = <<"{{other}}">>)
              => ret.value = call.text
        /\ (\A i \in 1..Len(call.text) : call.text[i] \in C22_Literals)
              => ret.value = call.text

C22_Witness ==
    /\ call.fn = "personalizeText" /\ ~ret.pending
    /\ call.text = <<"{{Company}}", "{{other}}">>
    /\ call.contact.company = "Acme" /\ call.contact.custom_fields = <<>>
    /\ ret.value = <<"Acme", "{{other}}">>
    /\ C22_Resolved(ret.value, call.contact)
    /\ PersonalizeText(ret.value, call.contact) = ret.value

\* ----- campaign runner

Terminal(s) == s \in {"completed", "failed"}
Posted(s) == \E i \in 1..Len(statuses) : statuses[i].status = s
LastStatus == statuses[Len(statuses)]
FatalFetchErrors == {"TemplateFetchFailed", "ContactsFetchFailed"}

\* C3: a token refresh failure at any point of a campaign run (the initial
\* getValidAccessToken call or an every-20th-send re-validation) aborts the run:
\* the run is in its outer catch or has thrown the refresh error, nothing is
\* sent any more, 'failed' is posted with the error and 'completed' never is.
C3_RefreshFailureAborts ==
    refreshFailed =>
        /\ pc \in {"fatal", "thrown"}
        /\ error = "TokenRefreshFailed"
        /\ ~Posted("completed")
        /\ pc = "thrown" =>
              /\ thrown = "TokenRefreshFailed"
              /\ LastStatus = [status |-> "failed", msg |-> "TokenRefreshFailed"]

C4_FetchFailureState ==
    error \in FatalFetchErrors =>
        /\ pc \in {"fatal", "thrown"}
        /\ result = NoResult
        /\ ~Posted("completed")
        /\ pc = "thrown" =>
              /\ thrown = error
              /\ LastStatus = [status |-> "failed", msg |-> error]

C4_NothingAfterFailure ==
    error \in FatalFetchErrors =>
        /\ totalSent' = totalSent
        /\ totalFailed' = totalFailed
        /\ fetches' = fetches
        /\ error' = error

\* C4: a failed template fetch or a failed contact-page fetch (first or later
\* page) aborts the run: from then on no counter moves (no email is sent),
\* 'completed' is never posted, no summary is returned, and the run ends by
\* posting 'failed' with that error's message and throwing that same error.
C4_FetchFailureAborts ==
    /\ []C4_FetchFailureState
    /\ [][C4_NothingAfterFailure]_vars

\* A later page's fetch failed after contacts of an earlier page were sent to.
C4_Witness ==
    /\ pc = "thrown"
    /\ thrown = "ContactsFetchFailed"
    /\ fetches = 2
    /\ totalSent > 0

C5_CountedOnce ==
    (sendResult' = "failed" /\ sendResult # "failed") =>
        /\ totalFailed' = totalFailed + 1
        /\ totalSent' = totalSent
        /\ error' = "none"
        /\ pc' = "log"

C5_NextContact ==
    (pc = "log" /\ sendResult = "failed") =>
        /\ pc' = IF idx < pageLen THEN "contact" ELSE "progress"
        /\ idx' = IF idx < pageLen THEN idx + 1 ELSE idx

\* C5: a failed send adds exactly one to failed, leaves sent unchanged and goes
\* on to log the outcome and to the next contact: the run is not aborted by it,
\* and at the end of every page and of the run every contact the fetched pages
\* held has been counted.
C5_FailedSendContinues ==
    /\ [][C5_CountedOnce]_vars
    /\ [][C5_NextContact]_vars
    /\ [](pc \in {"progress", "complete", "done"} =>
            totalSent + totalFailed = delivered)

\* A contact of page 2 is sent to after a send (not a re-validation) failed.
C5_Witness ==
    /\ sendResult = "sent"
    /\ totalFailed > 0
    /\ ~refreshFailed
    /\ page = 2

\* C6: with a valid payload the first status posted is 'running'; a terminal
\* status is posted exactly once, as the last post, by the time the run ends;
\* 'completed' is posted only after the pagination loop has ended; and the
\* task returns success = true exactly when 'completed' was posted.
C6_StatusProtocol ==
    payloadValid =>
        /\ Len(statuses) >= 1 => statuses[1].status = "running"
        /\ \A i \in 1..Len(statuses) :
              Terminal(statuses[i].status) <=> i = 2
        /\ Len(statuses) <= 2
        /\ pc \in {"done", "thrown"} => Len(statuses) = 2
        /\ Posted("completed") => (pc = "done" /\ (~hasMore \/ pageLen < pageSize))
        /\ Posted("failed") => pc = "thrown"
        /\ result.success <=> Posted("completed")
        /\ pc = "done" <=> result.success
        /\ pc = "thrown" <=> thrown # "none"

\* A run over two pages has returned after posting running, completed.
C6_Witness ==
    /\ pc = "done"
    /\ fetches = 2
    /\ Len(statuses) = 2
    /\ statuses[2].status = "completed"

\* C7: after the first page shorter than pageSize (an empty one included) no
\* further page is fetched; the run terminates, and it ends with 'completed'
\* unless a fatal error occurred.
C7_ShortPageEndsPagination ==
    /\ [][shortSeen => (fetches' = fetches)]_vars
    /\ [](shortSeen => pc # "page")
    /\ <>(pc \in {"done", "thrown"})
    /\ [](pc = "done" => LastStatus.status = "completed")
    /\ [](pc = "thrown" => (error # "none" \/ ~payloadValid))

\* A full page was followed by an empty one and the run completed.
C7_Witness ==
    /\ pc = "done"
    /\ fetches = 2
    /\ pageLen = 0
    /\ LastStatus.status = "completed"

\* C8: the total of a successful summary is the total reported with page 1.
C8_TotalIsFirstPageTotal ==
    result.success => result.total = firstTotal

\* The run succeeded although its second page reported another total.
C8_Witness ==
    /\ result.success
    /\ fetches = 2
    /\ totalsDiffer

\* the step from a contact's start is the re-validation of the token
C24_Revalidated == pc = "contact" /\ (pc' = "send" \/ sendResult' = "error")

\* contacts processed so far are a positive multiple of 20
C24_Due == totalSent + totalFailed > 0 /\ (totalSent + totalFailed) % 20 = 0

C25_PagesDone ==
    IF pc \in {"contact", "send", "log", "progress"} THEN fetches - 1
    ELSE IF fetches > 0 /\ pageLen = 0 THEN fetches - 1
    ELSE fetches

C25_Counts ==
    (pc \in {"page", "contact", "send", "log", "progress", "complete", "done"}) =>
        progressPosts = C25_PagesDone

\* the contacts counted: sent and failed
C25_Counters == <<totalSent, totalFailed>>

C25_Step ==
    /\ progressPosts' # progressPosts => pc = "progress"
    /\ pc = "progress" =>
          /\ progressPosts' = progressPosts + 1
          /\ progress'.processed = totalSent + totalFailed
          /\ progress'.sent = totalSent /\ progress'.failed = totalFailed
    /\ totalSent' >= totalSent /\ totalFailed' >= totalFailed
    /\ pc \in {"progress", "page", "complete"} => C25_Counters' = C25_Counters
    /\ pc' = "done" =>
          result'.sent = totalSent /\ result'.failed = totalFailed

\* C25: every non-empty contact page is followed by exactly one progress
\* update, whose processed count is sent + failed at that moment; from one
\* update to the next processed, sent and failed do not decrease; the last
\* update carries the sent and failed values of the returned summary.
\* An update carries the counters of its moment; the counters never
\* decrease, and from an update to the next page's first contact, or to
\* the return, they do not change.
C25_ProgressPerPage == []C25_Counts /\ [][C25_Step]_vars

\* a run of two non-empty pages that returned after two updates
C25_Witness ==
    /\ pc = "done" /\ progressPosts = 2 /\ fetches = 2
    /\ totalFailed > 0
    /\ result.sent + result.failed = pageSize + 1

\* the answer to the first page request has just arrived, without contacts
C26_FirstPageEmpty ==
    pc = "page" /\ fetches = 0 /\ error' = "none" /\ pageLen' = 0

\* C26: when the first contact page is empty the run sends nothing, fetches
\* no further page, posts 'completed' and returns success = true with
\* sent = 0 and failed = 0.
C26_EmptyFirstPage ==
    /\ [][C26_FirstPageEmpty => (pc' = "complete" /\ hasMore' = FALSE)]_vars
    /\ []((pc \in {"complete", "done", "fatal", "thrown"} /\ fetches > 0 /\ delivered = 0
            /\ error # "ContactsFetchFailed") =>
             /\ fetches = 1
             /\ totalSent = 0 /\ totalFailed = 0
             /\ pc \in {"complete", "done"}
             /\ pc = "done" =>
                   /\ LastStatus.status = "completed"
                   /\ result.success /\ result.sent = 0 /\ result.failed = 0)

C26_Witness ==
    /\ pc = "done" /\ fetches = 1 /\ delivered = 0
    /\ LastStatus.status = "completed"
    /\ result.success /\ result.sent = 0 /\ result.failed = 0

\* where the run goes after a post that was delivered
C27_AsDelivered ==
    /\ totalSent' = totalSent /\ totalFailed' = totalFailed
    /\ totalContacts' = totalContacts /\ token' = token /\ error' = error
    /\ pageLen' = pageLen
    /\ CASE pc = "start" ->
               pc' = "token" /\ idx' = idx /\ page' = page /\ thrown' = "none"
         [] pc = "log" ->
               /\ page' = page
               /\ IF idx < pageLen
                  THEN idx' = idx + 1 /\ pc' = "contact"
                  ELSE idx' = idx /\ pc' = "progress"
         [] pc = "progress" ->
               /\ page' = page + 1 /\ idx' = idx
               /\ pc' = IF pageLen = pageSize THEN "page" ELSE "complete"
         [] pc = "complete" ->
               /\ pc' = "done" /\ thrown' = "none"
               /\ result' = [success |-> TRUE, sent |-> totalSent,
                             failed |-> totalFailed, total |-> totalContacts]
         [] pc = "fatal" ->
               pc' = "thrown" /\ thrown' = error /\ result' = NoResult
         [] OTHER -> FALSE

\* C27: a failure of a status webhook, a progress webhook or an email-log
\* post never changes the control flow of a campaign run: after a lost post
\* the counters, the contact and page the run is at, and the terminal
\* outcome are those of the run whose post was delivered.
C27_PostsNeverSteer == [][postLost' => C27_AsDelivered]_vars

C27_Witness ==
    /\ postLost /\ pc = "done" /\ result.success
    /\ result.sent = 1 /\ result.failed = 0

\* the email-logs post of the contact just handled has failed
C28_LogLost == pc = "log" /\ postLost'

\* the run moves on to the next contact, or to the progress update after
\* the last contact of the page
C28_NextContact ==
    IF idx < pageLen
    THEN idx' = idx + 1 /\ pc' = "contact"
    ELSE idx' = idx /\ pc' = "progress"

C34_InOrder ==
    /\ (sendResult' \in {"sent", "failed"} /\ sendResult' # sendResult)
          => /\ sendResult = "none" /\ pc \in {"contact", "send"} /\ pc' = "log"
             /\ idx' = idx /\ page' = page /\ idx \in 1..pageLen
    /\ pc = "log" => pc' \in {"contact", "progress"} /\ sendResult' = "none"
    /\ idx' # idx
          => \/ pc = "log" /\ idx' = idx + 1 /\ page' = page
             \/ pc = "page" /\ idx' \in {0, 1}
    /\ page' # page => pc = "progress" /\ page' = page + 1

\* A contact whose processing is over (its outcome is being logged) was
\* given a send attempt.
C34_SendAttempted == pc = "log" => sendResult \in {"sent", "failed"}

\* C34: within one campaign run, contacts are handled strictly one at a
\* time in the order returned by the backend, pages in ascending page
\* number: a send is issued only after the send and the outcome log of the
\* previous contact have completed, and every contact of every fetched page
\* is given exactly one send attempt.
C34_SequentialOneSendEach == []C34_SendAttempted /\ [][C34_InOrder]_vars

\* the ordering part alone
C34_Sequential == [][C34_InOrder]_vars

\* The contacts of the run whose outcome has been counted: those of the
\* pages before the current one, and of the current page those before the
\* current contact, with the current one from the moment its send result or
\* exception is known.
C35_Processed ==
    IF pc \in {"contact", "send"} THEN delivered - pageLen + (idx - 1)
    ELSE IF pc = "log" THEN delivered - pageLen + idx
    ELSE delivered

C35_Balance == totalSent + totalFailed = C35_Processed

C35_CountedOnce ==
    /\ totalSent' >= totalSent /\ totalFailed' >= totalFailed
    /\ (totalSent' + totalFailed') - (totalSent + totalFailed) \in {0, 1}
    /\ (totalSent' + totalFailed') # (totalSent + totalFailed)
          => pc \in {"contact", "send"} /\ pc' = "log"

\* C35: at every point of a campaign run, sent + failed equals the number
\* of contacts whose processing has finished: each processed contact
\* increments exactly one of the two counters exactly once, also when its
\* processing ends through the per-contact exception handler, and neither
\* counter ever decreases.
C35_SentPlusFailed == []C35_Balance /\ [][C35_CountedOnce]_vars

\* a run that ended after a contact went through the exception handler and
\* another was sent to
C35_Witness ==
    /\ pc = "done" /\ refreshFailed
    /\ totalSent >= 1 /\ totalFailed >= 1
    /\ totalSent + totalFailed = delivered

\* the run's token is the last token string the provider issued to it
C38_Current == token = issued

C38_TokenStep ==
    /\ token' # token
          => /\ pc = "token" \/ (pc = "contact" /\ pc' = "send")
             /\ token' > token
    /\ issued' # issued => token' = issued'
    /\ (sendResult' \in {"sent", "failed"} /\ sendResult' # sendResult)
          => token' = token /\ token = issued

\* C38: a campaign run holds exactly one current access token: every send
\* uses the token returned by the most recent re-validation that produced a
\* different token string (the initial token if none did), and once a
\* re-validation has replaced the token no later send uses the replaced
\* one.  Token strings are numbered in the order the provider issues them.
C38_SingleCurrentToken == []C38_Current /\ [][C38_TokenStep]_vars

\* the contact after the twentieth was sent to with a token that replaced
\* the one the run started with
C38_Witness ==
    /\ pc = "log" /\ sendResult = "sent"
    /\ totalSent + totalFailed = refreshEvery + 1
    /\ token = 1 /\ issued = 1

====
